---- MODULE Spec2Model ----
(***************************************************************************)
(* Scene detection, segment rendering, trimming and timeline export of the *)
(* video backend (src/video_analysis, src/backend).                        *)
(*                                                                         *)
(* Times are integers in milliseconds: 2.0 s is 2000.  round(x, 2) is      *)
(* Round2, which rounds to a multiple of 10 ms.  Sums and differences of   *)
(* times are exact: binary floating-point rounding is outside the model.   *)
(***************************************************************************)
EXTENDS Integers, Sequences, FiniteSets, TLC

VARIABLES
    \* ---- detection (analyze_video.py, detect_scenes.py, ai_segmentation.py)
    video,        \* the source file as the libraries see it
    method,       \* --segmentation-method
    capability,   \* what the transcription chain does for this run
    segs,         \* the utterances Whisper returns when it works
    audio,        \* audio_data: the samples analyze_audio returns, <<>> for none
    cutOut,       \* result of detect_scenes
    aiOut,        \* result of detect_scenes_ai
    analysis,     \* result of analyze_video
    \* ---- server (main.py, video_segmentation.py)
    stored,       \* the analysis JSON file of one analysis id
    files,        \* the segment files on disk: path -> what was rendered
    req,          \* the requests: handler position and locals
    running,      \* the request whose coroutine holds the event loop, or 0
    acked,        \* per scene, the last change a 200 response reported
    \* ---- export (video_export.py, main.py)
    timeline,     \* timeline_data of the export request
    export,       \* the export handler: position, result, manifest
    outputs,      \* the files of the exports directory
    \* ---- calls of the rendering and export functions
    calls         \* the calls made so far: arguments, what ffmpeg did, result

detectVars == <<video, method, capability, segs, audio, cutOut, aiOut, analysis>>

serverVars == <<stored, files, req, running, acked>>

exportVars == <<timeline, export, outputs>>

callVars == <<calls>>

vars == <<video, method, capability, segs, audio, cutOut, aiOut, analysis,
          stored, files, req, running, acked, timeline, export, outputs,
          calls>>

-----------------------------------------------------------------------------
\* Bounds of the explored inputs.

MaxUtter == 2

\* Program constants.
MinSceneMs == 2000        \* ai_segmentation.py:228   end_time - start_time < 2.0
MinTopicGapMs == 5000     \* ai_segmentation.py:131   min_segment_length = 5.0
LongPauseMs == 1000       \* ai_segmentation.py:144   > 1.0
FadeInLoMs == 200         \* detect_scenes.py:146     start_time > 0.2
FadeInHiMs == 2000        \* detect_scenes.py:146     start_time < 2.0
DegenerateEndMs == 10     \* detect_scenes.py:74      0.01

-----------------------------------------------------------------------------
\* Helpers on sets and sequences.

SetMin(S) == CHOOSE x \in S : \A y \in S : x <= y

RECURSIVE SortSet(_)
\* sorted(all_boundaries): the ascending sequence of a finite set of integers
SortSet(S) ==
    IF S = {} THEN <<>>
    ELSE LET m == SetMin(S) IN <<m>> \o SortSet(S \ {m})

RECURSIVE SelectIdx(_, _, _)
\* the sub-sequence of s at the indices i (ascending) with Keep(i)
SelectIdx(s, Keep(_), i) ==
    IF i > Len(s) THEN <<>>
    ELSE (IF Keep(i) THEN <<s[i]>> ELSE <<>>) \o SelectIdx(s, Keep, i + 1)

\* round(x, 2) of a time in ms: the nearest multiple of 10, ties to even
Round2(t) ==
    LET q == t \div 10
        r == t % 10
    IN  IF r < 5 THEN 10 * q
        ELSE IF r > 5 THEN 10 * (q + 1)
        ELSE IF q % 2 = 0 THEN 10 * q ELSE 10 * (q + 1)

-----------------------------------------------------------------------------
\* Text of an utterance: a sequence of characters over a small alphabet.

RECURSIVE LStrip(_)
LStrip(t) == IF t # <<>> /\ Head(t) = " " THEN LStrip(Tail(t)) ELSE t

RECURSIVE RStrip(_)
RStrip(t) ==
    IF t # <<>> /\ t[Len(t)] = " " THEN RStrip(SubSeq(t, 1, Len(t) - 1)) ELSE t

\* str.strip()
Strip(t) == RStrip(LStrip(t))

\* text.endswith(('.', '!', '?'))
EndsSentence(t) == t # <<>> /\ t[Len(t)] \in {".", "!", "?"}

\* '?' in text
HasQuestion(t) == \E i \in 1..Len(t) : t[i] = "?"

-----------------------------------------------------------------------------
\* detect_scenes.py

\* One output scene of the per-scene loop.
CutScene(raw, i) ==
    [start |-> Round2(raw[i].s),
     end |-> Round2(raw[i].e),
     transition_type |->
        IF i = 1 /\ raw[i].s > FadeInLoMs /\ raw[i].s < FadeInHiMs
        THEN "fade-in" ELSE "cut"]

\* Fault injection: an empty scene list of PySceneDetect is returned as it
\* is, without the scene that spans the video.
DetectScenesNoWholeScene(v) ==
    IF v.libError THEN [ok |-> FALSE, scenes |-> <<>>]
    ELSE [ok |-> TRUE,
          scenes |-> [i \in 1..Len(v.raw) |-> CutScene(v.raw, i)]]

\* detect_scenes(video_path, ...): [ok |-> FALSE] is the None of the except
\* branch; otherwise the list scenes_output.
DetectScenes(v) ==
    IF v.libError THEN [ok |-> FALSE, scenes |-> <<>>]
    ELSE IF v.raw = <<>>
    THEN [ok |-> TRUE,
          scenes |-> << [start |-> 0,
                         end |-> IF v.duration > 0 THEN Round2(v.duration)
                                 ELSE DegenerateEndMs,
                         transition_type |-> "cut"] >>]
    ELSE [ok |-> TRUE,
          scenes |-> [i \in 1..Len(v.raw) |-> CutScene(v.raw, i)]]

-----------------------------------------------------------------------------
\* ai_segmentation.py

RECURSIVE TopicLoop(_, _, _, _)
TopicLoop(ss, i, boundaries, minLen) ==
    IF i > Len(ss) THEN boundaries
    ELSE
        LET text == Strip(ss[i].text)
            is_sentence_end == EndsSentence(text)
            is_long_pause ==
                i < Len(ss) /\ ss[i + 1].start - ss[i].end > LongPauseMs
            is_question == HasQuestion(text)
            take ==
                /\ is_sentence_end \/ is_long_pause \/ is_question
                /\ \/ Len(boundaries) = 0
                   \/ ss[i].end - boundaries[Len(boundaries)] >= minLen
        IN  TopicLoop(ss, i + 1,
                      IF take THEN Append(boundaries, ss[i].end) ELSE boundaries,
                      minLen)

\* Fault injection: the minimum distance between accepted boundaries is
\* not applied.
DetectTopicBoundariesNoGap(ss) == TopicLoop(ss, 1, <<0>>, 0)

\* detect_topic_boundaries(segments, min_segment_length = 5.0)
DetectTopicBoundaries(ss) == TopicLoop(ss, 1, <<0>>, MinTopicGapMs)

SeqRange(s) == {s[i] : i \in 1..Len(s)}

\* The transcript of a scene window: the stripped texts of the utterances
\* that overlap it, joined by blanks and stripped.
RECURSIVE JoinTexts(_, _, _, _)
JoinTexts(ss, i, lo, hi) ==
    IF i > Len(ss) THEN <<>>
    ELSE
        LET rest == JoinTexts(ss, i + 1, lo, hi)
        IN  IF ss[i].start < hi /\ ss[i].end > lo
            THEN Strip(ss[i].text) \o <<" ">> \o rest
            ELSE rest

SegmentTranscript(ss, lo, hi) == Strip(JoinTexts(ss, 1, lo, hi))

\* The scene built for the boundary pair (lo, hi).
AiScene(lo, hi, topic, transcript) ==
    LET txt == IF transcript.ok /\ transcript.segs # <<>>
               THEN SegmentTranscript(transcript.segs, lo, hi) ELSE <<>>
    IN  [start |-> Round2(lo),
         end |-> Round2(hi),
         transition_type |-> IF lo \in SeqRange(topic) THEN "topic-change" ELSE "cut",
         transcript |-> txt,
         confidence_score |-> IF txt # <<>> THEN 8 ELSE 6]

\* Fault injection: a pair of exactly the minimum length is skipped too.
KeepPairLonger(lo, hi) == hi - lo > MinSceneMs

\* The pair filter of the scene loop: very short segments are skipped.
KeepPair(lo, hi) == ~(hi - lo < MinSceneMs)

\* Step 3 of detect_scenes_ai: union, sort, pair up, filter.
MergeBoundaries(visual, topic, transcript) ==
    LET all == {visual[i].start : i \in 1..Len(visual)}
                 \cup {visual[i].end : i \in 1..Len(visual)}
                 \cup SeqRange(topic)
        sb == SortSet(all)
        pairs == [i \in 1..(Len(sb) - 1) |-> <<sb[i], sb[i + 1]>>]
        kept == SelectIdx(pairs, LAMBDA i : KeepPair(pairs[i][1], pairs[i][2]), 1)
    IN  [i \in 1..Len(kept) |-> AiScene(kept[i][1], kept[i][2], topic, transcript)]

\* What extract_audio_for_transcription + transcribe_audio_whisper deliver:
\* ok = FALSE is None (no audio path, or Whisper missing or failing).
Transcribe(cap, ss) ==
    CASE cap = "noaudio" -> [ok |-> FALSE, segs |-> <<>>]
      [] cap = "fail" -> [ok |-> FALSE, segs |-> <<>>]
      [] cap = "empty" -> [ok |-> TRUE, segs |-> <<>>]
      [] OTHER -> [ok |-> TRUE, segs |-> ss]

\* topic_boundaries of detect_scenes_ai after step 2: the result of
\* detect_topic_boundaries when there is a transcript, the empty list when
\* there is none or the function returned before step 2.
TopicBoundaries(v, cap, ss) ==
    LET visual == DetectScenes(v)
        transcript == Transcribe(cap, ss)
    IN  IF ~visual.ok \/ visual.scenes = <<>> THEN <<>>
        ELSE IF transcript.ok /\ transcript.segs # <<>>
        THEN DetectTopicBoundaries(transcript.segs)
        ELSE <<>>

\* detect_scenes_ai(video_path, ...) once torch is imported.
DetectScenesAi(v, cap, ss) ==
    LET visual == DetectScenes(v)
        transcript == Transcribe(cap, ss)
        topic == IF transcript.ok /\ transcript.segs # <<>>
                 THEN DetectTopicBoundaries(transcript.segs) ELSE <<>>
    IN  IF ~visual.ok \/ visual.scenes = <<>> THEN <<>>
        ELSE MergeBoundaries(visual.scenes, topic, transcript)

-----------------------------------------------------------------------------
\* analyze_video.py

\* The strategy dispatch of analyze_video: an ImportError (torch missing)
\* falls back to detect_scenes.
SelectScenes(v, m, cap, ss) ==
    IF m = "ai-based" /\ cap # "notorch"
    THEN [ok |-> TRUE, scenes |-> DetectScenesAi(v, cap, ss)]
    ELSE DetectScenes(v)

\* The single scene used when the strategy returned an empty list.
FallbackScenes(v) ==
    << [start |-> 0, end |-> v.duration, transition_type |-> "cut"] >>

\* Volumes are integers in thousandths: 0.7 is 700.  analyze_audio cuts the
\* sound into intervals of --audio-interval seconds.
AudioIntervalMs == 1000     \* analyze_video.py:12   audio_interval=1.0
HighEnergyLevel == 700      \* analyze_video.py:12   audio_threshold=0.7

\* The normalized volume of interval i (from 0) of a sound track: a track
\* that is quiet but for its fifth second, a rising one, a loud one.
SoundTracks == {"burst", "ramp", "loud"}

IntervalVolume(track, i) ==
    CASE track = "burst" -> IF i = 4 THEN 900 ELSE 100
      [] track = "ramp" -> IF 101 * i > 1000 THEN 1000 ELSE 101 * i
      [] OTHER -> 800

\* analyze_audio(video_path, interval, high_energy_threshold): one sample
\* per interval, the last one cut at the duration.
AnalyzeAudio(d, track) ==
    LET n == (d + AudioIntervalMs - 1) \div AudioIntervalMs
    IN  [k \in 1..n |->
            LET lo == (k - 1) * AudioIntervalMs
                hi == IF k * AudioIntervalMs < d THEN k * AudioIntervalMs ELSE d
                volume == IntervalVolume(track, k - 1)
            IN  [start |-> Round2(lo), end |-> Round2(hi), volume |-> volume,
                 high_energy |-> IF volume >= HighEnergyLevel THEN 1 ELSE 0]]

\* round(total / n, 3) of volumes in thousandths: the nearest integer, ties
\* to even.
RoundMean(total, n) ==
    LET q == total \div n
        r == total % n
    IN  IF 2 * r < n THEN q
        ELSE IF 2 * r > n THEN q + 1
        ELSE IF q % 2 = 0 THEN q ELSE q + 1

RECURSIVE SumVolume(_)
SumVolume(samples) ==
    IF samples = <<>> THEN 0
    ELSE Head(samples).volume + SumVolume(Tail(samples))

\* scene_audio: the samples the inner loop of analyze_video appends.
SceneAudio(audio_data, scene_start, scene_end) ==
    SelectSeq(audio_data,
              LAMBDA a : a.start <= scene_end /\ a.end >= scene_start)

EnhancedScene(sc, i, m, audio_data) ==
    LET scene_audio == SceneAudio(audio_data, sc.start, sc.end)
    IN  [scene_index |-> i - 1,
         start |-> sc.start,
         end |-> sc.end,
         duration |-> Round2(sc.end - sc.start),
         transition_type |-> sc.transition_type,
         avg_volume |-> IF scene_audio = <<>> THEN 0
                        ELSE RoundMean(SumVolume(scene_audio), Len(scene_audio)),
         high_energy |-> IF \E k \in 1..Len(scene_audio) :
                                 scene_audio[k].high_energy = 1
                         THEN 1 ELSE 0,
         segmentation_method |-> m]

\* analyze_video(video_path, ..., segmentation_method); audio_data is what
\* analyze_audio returned, <<>> when it returned None or an empty list.
AnalyzeVideo(v, m, cap, ss, audio_data) ==
    LET sel == SelectScenes(v, m, cap, ss)
        scenes == IF sel.scenes = <<>> THEN FallbackScenes(v) ELSE sel.scenes
    IN  IF ~v.readable \/ ~sel.ok THEN [ok |-> FALSE, scenes |-> <<>>]
        ELSE [ok |-> TRUE,
              scenes |-> [i \in 1..Len(scenes) |->
                             EnhancedScene(scenes[i], i, m, audio_data)]]

-----------------------------------------------------------------------------
\* Inputs of the detection runs.

Durations == {0, 1504, 6000, 12000}
CutTimes == {1204, 4000, 9000}
UtterTimes == {0, 3000, 6000, 7500, 11000}
Texts == { <<"w">>, <<"w", ".">>, <<"w", "?", "w">>, <<"w", ".", " ">>, <<" ">> }
Capabilities == {"notorch", "noaudio", "fail", "empty", "ok"}
Methods == {"cut-based", "ai-based"}

\* The scene list PySceneDetect reports for cut points C in a video of
\* length d: contiguous scenes from 0 to d.
RawOfCuts(C, d) ==
    LET sb == SortSet({0, d} \cup C)
    IN  [i \in 1..(Len(sb) - 1) |-> [s |-> sb[i], e |-> sb[i + 1]]]

Videos ==
    { [duration |-> d, raw |-> RawOfCuts(C, d), libError |-> FALSE, readable |-> TRUE] :
        d \in Durations \ {0}, C \in SUBSET {c \in CutTimes : c < 12000} }
    \cup { [duration |-> d, raw |-> <<>>, libError |-> e, readable |-> r] :
             d \in Durations, e \in BOOLEAN, r \in BOOLEAN }

Utterances ==
    { [start |-> a, end |-> b, text |-> t] :
        a \in UtterTimes, b \in UtterTimes, t \in Texts }

WellFormedSegs(ss) ==
    /\ \A i \in 1..Len(ss) : ss[i].start < ss[i].end
    /\ \A i \in 1..(Len(ss) - 1) : ss[i].end <= ss[i + 1].start

RECURSIVE SegLists(_)
\* Whisper's segments: utterances in time order, none overlapping the next.
SegLists(n) ==
    IF n = 0 THEN { <<>> }
    ELSE LET shorter == SegLists(n - 1)
         IN  shorter \cup
             { Append(s, u) :
                 s \in {x \in shorter : Len(x) = n - 1 /\ WellFormedSegs(x)},
                 u \in {y \in Utterances : y.start < y.end} }

Transcripts == {ss \in SegLists(MaxUtter) : WellFormedSegs(ss)}

\* What analyze_audio may return for the video: nothing (None, or no audio
\* track), or the samples of one of the sound tracks.
AudioData(v) == {<<>>} \cup {AnalyzeAudio(v.duration, t) : t \in SoundTracks}

NotRun == [run |-> FALSE, ok |-> FALSE, scenes |-> <<>>]

\* No path of an uploaded video.
NoVideoPath == [present |-> FALSE, tier |-> "none"]

\* stored_video_path_on_server: the upload, moved to the videos directory
\* under the analysis id.
OriginalVideo == [present |-> TRUE, tier |-> "original"]

NoTimeline == [trackItemsMap |-> <<>>, clips |-> <<>>]

NoExport ==
    [pc |-> "idle", status |-> 0, error |-> "", segments |-> <<>>,
     manifest |-> <<>>, ffmpegRuns |-> 0, mode |-> "", missing |-> {}]

IdleExport ==
    /\ timeline = NoTimeline
    /\ export = NoExport
    /\ outputs = {}

NoCalls == calls = <<>>

-----------------------------------------------------------------------------
\* The detection runs.

\* The inputs of one run.  The sound track varies in the runs without a
\* transcript; in the runs with one, analyze_audio returns nothing.
InitDetect ==
    /\ video \in {v \in Videos : v.raw = <<>> \/ v.raw[Len(v.raw)].e = v.duration}
    /\ method \in Methods
    /\ capability \in Capabilities
    /\ segs \in IF capability = "ok" THEN Transcripts \ {<<>>} ELSE {<<>>}
    /\ audio \in IF capability = "ok" THEN {<<>>} ELSE AudioData(video)
    /\ cutOut = NotRun
    /\ aiOut = NotRun
    /\ analysis = NotRun
    /\ stored = [exists |-> FALSE, scenes |-> <<>>, storedVideoPath |-> NoVideoPath]
    /\ files = << >>
    /\ req = << >>
    /\ running = 0
    /\ acked = << >>
    /\ IdleExport
    /\ NoCalls

\* python detect_scenes.py <video>
RunDetectScenes ==
    /\ ~cutOut.run
    /\ cutOut' = [run |-> TRUE] @@ DetectScenes(video)
    /\ UNCHANGED <<video, method, capability, segs, audio, aiOut, analysis>>
    /\ UNCHANGED serverVars
    /\ UNCHANGED exportVars
    /\ UNCHANGED callVars

\* detect_scenes_ai(video) where torch can be imported
RunDetectScenesAi ==
    /\ ~aiOut.run
    /\ capability # "notorch"
    /\ aiOut' = [run |-> TRUE, ok |-> TRUE,
                 scenes |-> DetectScenesAi(video, capability, segs),
                 topic_boundaries |-> TopicBoundaries(video, capability, segs)]
    /\ UNCHANGED <<video, method, capability, segs, audio, cutOut, analysis>>
    /\ UNCHANGED serverVars
    /\ UNCHANGED exportVars
    /\ UNCHANGED callVars

\* python analyze_video.py --input <video> --segmentation-method <method>
RunAnalyzeVideo ==
    /\ ~analysis.run
    /\ analysis' = [run |-> TRUE] @@
                   AnalyzeVideo(video, method, capability, segs, audio)
    /\ UNCHANGED <<video, method, capability, segs, audio, cutOut, aiOut>>
    /\ UNCHANGED serverVars
    /\ UNCHANGED exportVars
    /\ UNCHANGED callVars

NextDetect == RunDetectScenes \/ RunDetectScenesAi \/ RunAnalyzeVideo

SpecDetect == InitDetect /\ [][NextDetect]_vars

-----------------------------------------------------------------------------
\* video_segmentation.py

Tiers == {"proxy", "mezzanine"}

\* What one ffmpeg run can do: exit 0 with the file written, exit non-zero
\* before writing, run into the timeout with the file half written, exit 0
\* without an output file.
FfmpegOutcomes == {"ok", "nonzero", "timeout", "nooutput"}

NoName == [scene |-> 0, tier |-> "none", query |-> 0]

\* An absent dictionary key (path or URL).
NoRef == [present |-> FALSE, tier |-> "none", filename |-> NoName]

\* f"scene_{scene_id}_{tier}.mp4"
SegmentFilename(sceneId, tier) == [scene |-> sceneId, tier |-> tier, query |-> 0]

\* os.path.join(<store>, analysis_id, "segments", tier, filename)
SegmentPath(tier, filename) ==
    [present |-> TRUE, tier |-> tier, filename |-> filename]

\* f"/api/segment/{analysis_id}/{tier}/{filename}"
SegmentUrl(tier, filename) ==
    [present |-> TRUE, tier |-> tier, filename |-> filename]

WriteFile(fs, path, content) ==
    [q \in DOMAIN fs \cup {path} |-> IF q = path THEN content ELSE fs[q]]

RemoveFile(fs, path) == [q \in DOMAIN fs \ {path} |-> fs[q]]

NoCommand == [run |-> FALSE, ss |-> 0, t |-> 0, output |-> NoRef,
              overwrite |-> FALSE, timeout |-> 0]

\* timeout=600 of subprocess.run, in seconds
SegmentTimeoutS == 600

\* The ffmpeg command of generate_segment: -y -ss start -i source -t duration
\* <settings> output_path, run under the timeout.
SegmentCommand(path, start, dur) ==
    [run |-> TRUE, ss |-> start, t |-> dur, output |-> path,
     overwrite |-> TRUE, timeout |-> SegmentTimeoutS]

\* What generate_segment raises.  Every failure is a VideoSegmentationError;
\* error names the except clause that built it: "timeout" for
\* subprocess.TimeoutExpired, "unexpected" for the clause that catches
\* Exception, which also catches the VideoSegmentationError raised inside
\* the try block and wraps its message.
SegmentFailure(clause, message, command, fs) ==
    [ok |-> FALSE, invoked |-> command.run, error |-> clause,
     exception |-> "VideoSegmentationError", message |-> message,
     command |-> command, files |-> fs]

\* generate_segment from subprocess.run on: the run, the test of the return
\* code and the test that the output file exists.
RunFfmpeg(fs, path, start, dur, o) ==
    LET command == SegmentCommand(path, start, dur)
    IN  CASE o = "ok" ->
                [ok |-> TRUE, invoked |-> TRUE, error |-> "",
                 exception |-> "", message |-> "", command |-> command,
                 files |-> WriteFile(fs, path,
                              [valid |-> TRUE, start |-> start, dur |-> dur])]
           [] o = "nonzero" ->
                SegmentFailure("unexpected", "FFmpeg failed", command, fs)
           [] o = "timeout" ->
                SegmentFailure("timeout", "FFmpeg timeout for segment generation",
                               command,
                               WriteFile(fs, path,
                                  [valid |-> FALSE, start |-> start, dur |-> dur]))
           [] OTHER ->
                SegmentFailure("unexpected",
                               "FFmpeg completed but output file not found",
                               command, RemoveFile(fs, path))

\* Fault injection: the source is not looked for; ffmpeg fails on it.
GenerateSegmentNoSourceCheck(fs, srcOk, path, start, dur, o) ==
    RunFfmpeg(fs, path, start, dur, IF srcOk THEN o ELSE "nonzero")

\* Fault injection: a return code of 0 is taken for success.
GenerateSegmentNoVerify(fs, srcOk, path, start, dur, o) ==
    IF ~srcOk
    THEN SegmentFailure("unexpected", "Input video file not found", NoCommand, fs)
    ELSE LET g == RunFfmpeg(fs, path, start, dur, o)
         IN  IF o = "nooutput"
             THEN [g EXCEPT !.ok = TRUE, !.error = "", !.exception = "",
                            !.message = ""]
             ELSE g

\* Fault injection: ffmpeg is run with -n; it refuses to write over a file
\* that exists and exits with a non-zero code.
GenerateSegmentNoOverwrite(fs, srcOk, path, start, dur, o) ==
    IF ~srcOk
    THEN SegmentFailure("unexpected", "Input video file not found", NoCommand, fs)
    ELSE RunFfmpeg(fs, path, start, dur,
                   IF path \in DOMAIN fs THEN "nonzero" ELSE o)

\* generate_segment(source, output_path, start, duration, settings): ok is
\* the return of True, an error the VideoSegmentationError raised; invoked
\* says whether subprocess.run was reached.
GenerateSegment(fs, srcOk, path, start, dur, o) ==
    IF ~srcOk
    THEN SegmentFailure("unexpected", "Input video file not found", NoCommand, fs)
    ELSE RunFfmpeg(fs, path, start, dur, o)

NoSegments == [proxy_video_path |-> NoRef, proxy_video_url |-> NoRef,
               mezzanine_video_path |-> NoRef, mezzanine_video_url |-> NoRef]

\* The dictionary generate_scene_segments returns for the two results.
GeneratedSegments(gp, pPath, gm, mPath) ==
    [proxy_video_path |-> IF gp.ok THEN pPath ELSE NoRef,
     proxy_video_url |->
        IF gp.ok THEN SegmentUrl("proxy", pPath.filename) ELSE NoRef,
     mezzanine_video_path |-> IF gm.ok THEN mPath ELSE NoRef,
     mezzanine_video_url |->
        IF gm.ok THEN SegmentUrl("mezzanine", mPath.filename) ELSE NoRef]

\* Fault injection: the scene is rendered as a whole, the first tier that
\* fails ends the call.
GenerateSceneSegmentsAtomic(fs, srcOk, scene, oP, oM) ==
    LET duration == scene.end - scene.start
        pPath == SegmentPath("proxy", SegmentFilename(scene.sceneId, "proxy"))
        mPath == SegmentPath("mezzanine",
                             SegmentFilename(scene.sceneId, "mezzanine"))
        gp == GenerateSegment(fs, srcOk, pPath, scene.start, duration, oP)
        gm == GenerateSegment(gp.files, srcOk, mPath, scene.start, duration, oM)
    IN  IF duration <= 0
        THEN [ok |-> FALSE, segments |-> NoSegments, files |-> fs,
              attempted |-> {}, message |-> "Invalid scene duration"]
        ELSE IF ~gp.ok
        THEN [ok |-> FALSE, segments |-> NoSegments, files |-> gp.files,
              attempted |-> {"proxy"}, message |-> gp.message]
        ELSE IF ~gm.ok
        THEN [ok |-> FALSE, segments |-> NoSegments, files |-> gm.files,
              attempted |-> Tiers, message |-> gm.message]
        ELSE [ok |-> TRUE,
              segments |-> GeneratedSegments(gp, pPath, gm, mPath),
              files |-> gm.files, attempted |-> Tiers, message |-> ""]

\* generate_scene_segments(analysis_id, source, scene_data, base_dir): ok is
\* FALSE when VideoSegmentationError is raised; attempted is the set of
\* tiers generate_segment was called for.
GenerateSceneSegments(fs, srcOk, scene, oP, oM) ==
    LET duration == scene.end - scene.start
        pPath == SegmentPath("proxy", SegmentFilename(scene.sceneId, "proxy"))
        mPath == SegmentPath("mezzanine",
                             SegmentFilename(scene.sceneId, "mezzanine"))
        gp == GenerateSegment(fs, srcOk, pPath, scene.start, duration, oP)
        gm == GenerateSegment(gp.files, srcOk, mPath, scene.start, duration, oM)
    IN  IF duration <= 0
        THEN [ok |-> FALSE, segments |-> NoSegments, files |-> fs,
              attempted |-> {}, message |-> "Invalid scene duration"]
        ELSE [ok |-> gp.ok \/ gm.ok,
              segments |-> GeneratedSegments(gp, pPath, gm, mPath),
              files |-> gm.files,
              attempted |-> Tiers,
              message |-> IF gp.ok \/ gm.ok THEN ""
                          ELSE "Failed to generate any segments"]

\* One tier of regenerate_scene_segments: the path rendered to, which is the
\* existing path when one was passed and the default path otherwise.
RegeneratePath(sceneId, tier, existing) ==
    IF existing.present THEN existing
    ELSE SegmentPath(tier, SegmentFilename(sceneId, tier))

\* os.path.basename(path) made into the tier's URL
RegeneratedUrl(tier, path) == SegmentUrl(tier, path.filename)

-----------------------------------------------------------------------------
\* main.py: the analysis record

\* str(n) for the default title
Digit(n) == CASE n = 1 -> "1" [] n = 2 -> "2" [] n = 3 -> "3" [] OTHER -> "n"

\* The bookkeeping analyze_video_endpoint adds to scene i of the script's
\* output; uuid4 is a fresh identifier, here the position.
EndpointScene(sc, i) ==
    [scene_index |-> sc.scene_index,
     start |-> sc.start,
     end |-> sc.end,
     duration |-> sc.duration,
     transition_type |-> sc.transition_type,
     segmentation_method |-> sc.segmentation_method,
     title |-> <<"S", "c", "e", "n", "e", " ", Digit(sc.scene_index + 1)>>,
     tags |-> {},
     sceneId |-> i,
     start_original |-> sc.start,
     end_original |-> sc.end,
     current_trimmed_start |-> 0,
     current_trimmed_duration |-> sc.duration,
     proxy_video_path |-> NoRef,
     proxy_video_url |-> NoRef,
     mezzanine_video_path |-> NoRef,
     mezzanine_video_url |-> NoRef]

\* scene_data.update(generated_segments)
WithSegments(sc, g) ==
    [sc EXCEPT
        !.proxy_video_path =
            IF g.proxy_video_path.present THEN g.proxy_video_path ELSE @,
        !.proxy_video_url =
            IF g.proxy_video_url.present THEN g.proxy_video_url ELSE @,
        !.mezzanine_video_path =
            IF g.mezzanine_video_path.present THEN g.mezzanine_video_path ELSE @,
        !.mezzanine_video_url =
            IF g.mezzanine_video_url.present THEN g.mezzanine_video_url ELSE @]

RECURSIVE RenderAllAbort(_, _, _, _)
\* Fault injection: the first scene whose generation raises ends the loop.
RenderAllAbort(scenes, i, fs, outs) ==
    IF i > Len(scenes) THEN [scenes |-> scenes, files |-> fs]
    ELSE
        LET g == GenerateSceneSegments(fs, TRUE, scenes[i], outs[i][1], outs[i][2])
        IN  IF g.ok
            THEN RenderAllAbort([scenes EXCEPT ![i] = WithSegments(scenes[i], g.segments)],
                                i + 1, g.files, outs)
            ELSE [scenes |-> scenes, files |-> g.files]

RECURSIVE RenderAll(_, _, _, _)
\* The segment loop of analyze_video_endpoint over scenes i..n: a scene
\* whose generation raises keeps its entry without references.
RenderAll(scenes, i, fs, outs) ==
    IF i > Len(scenes) THEN [scenes |-> scenes, files |-> fs]
    ELSE
        LET g == GenerateSceneSegments(fs, TRUE, scenes[i], outs[i][1], outs[i][2])
            sc == IF g.ok THEN WithSegments(scenes[i], g.segments) ELSE scenes[i]
        IN  RenderAll([scenes EXCEPT ![i] = sc], i + 1, g.files, outs)

\* The first index whose sceneId is scene_id, 0 when there is none.
FindScene(scenes, sceneId) ==
    IF \E i \in 1..Len(scenes) : scenes[i].sceneId = sceneId
    THEN SetMin({i \in 1..Len(scenes) : scenes[i].sceneId = sceneId})
    ELSE 0

-----------------------------------------------------------------------------
\* main.py: trim_scene_segment

\* url.split('/')[-1] joined to the tier's directory; NoRef when the scene
\* has no URL for the tier.
ExistingPath(url, tier) ==
    IF url.present THEN SegmentPath(tier, url.filename) ELSE NoRef

\* Fault injection: the trim renders from the scene's mezzanine segment.
FullVideoPathOfSegment(data) == [present |-> TRUE, tier |-> "mezzanine"]

\* original_full_video_path, the source the trim renders from.
OriginalFullVideoPath(data) == data.storedVideoPath

\* Fault injection: the offset of the request is dropped.
NewAbsoluteStartWithoutOffset(scene, rs) == scene.start_original

\* new_absolute_start_for_trimmed_segment
NewAbsoluteStart(scene, rs) == scene.start_original + rs

\* f"{url}?v={timestamp}": the last component now carries the query.
CacheBusted(url) ==
    IF url.present THEN [url EXCEPT !.filename.query = 1] ELSE url

\* Fault injection: the cache-busted URL of the response is what is stored.
StoredUrlWithQuery(url) == CacheBusted(url)

\* The URL keys of regenerated_segments that are merged into the stored
\* scene: {k: v for k, v in regenerated_segments.items() if k.endswith("_url")}
StoredUrl(url) == url

\* Fault injection: the end is computed from the start before the trim.
UpdatedSceneMetadataOldStart(target, newStart, newDur, regen) ==
    [target EXCEPT
        !.start_original = newStart,
        !.end_original = target.start_original + newDur,
        !.start = newStart,
        !.end = target.start_original + newDur,
        !.duration = newDur,
        !.current_trimmed_start = 0,
        !.current_trimmed_duration = newDur]

\* updated_scene_metadata
UpdatedSceneMetadata(target, newStart, newDur, regen) ==
    [target EXCEPT
        !.start_original = newStart,
        !.end_original = newStart + newDur,
        !.start = newStart,
        !.end = newStart + newDur,
        !.duration = newDur,
        !.proxy_video_url =
            IF regen.proxy_video_url.present
            THEN StoredUrl(regen.proxy_video_url) ELSE @,
        !.mezzanine_video_url =
            IF regen.mezzanine_video_url.present
            THEN StoredUrl(regen.mezzanine_video_url) ELSE @,
        !.current_trimmed_start = 0,
        !.current_trimmed_duration = newDur]

\* Fault injection: the entry of the trimmed scene is taken out of the list
\* and the updated entry is put at its end.
SceneMovedToEnd(data, idx, entry) ==
    [data EXCEPT
        !.scenes = Append(SubSeq(@, 1, idx - 1) \o SubSeq(@, idx + 1, Len(@)),
                          entry)]

\* analysis_data["analysisResult"]["scenes"][scene_index] = entry
ReplaceScene(data, idx, entry) == [data EXCEPT !.scenes[idx] = entry]

\* The updated_scene_metadata of the response body.
TrimResponseScene(updated, regen) ==
    [updated EXCEPT
        !.proxy_video_url = CacheBusted(regen.proxy_video_url),
        !.mezzanine_video_url = CacheBusted(regen.mezzanine_video_url)]

-----------------------------------------------------------------------------
\* main.py: update_scene_metadata

\* sorted(list(set(tag.strip() for tag in tags if tag.strip()))): the sorted
\* list of a set, kept as the set.
CleanTags(tags) ==
    {Strip(tags[i]) : i \in {k \in 1..Len(tags) : Strip(tags[k]) # <<>>}}

\* Fault injection: the edit rebuilds the entry and loses the reference to
\* the proxy file.
EditedSceneWithoutProxy(target, upd) ==
    [target EXCEPT
        !.title = IF upd.hasTitle THEN Strip(upd.title) ELSE @,
        !.tags = IF upd.hasTags THEN CleanTags(upd.tags) ELSE @,
        !.proxy_video_path = NoRef,
        !.proxy_video_url = NoRef]

\* target_scene after the assignments of title and tags.
EditedScene(target, upd) ==
    [target EXCEPT
        !.title = IF upd.hasTitle THEN Strip(upd.title) ELSE @,
        !.tags = IF upd.hasTags THEN CleanTags(upd.tags) ELSE @]

-----------------------------------------------------------------------------
\* video_export.py

\* The clips the exporter looks at: the values of trackItemsMap in the order
\* of the JSON object, or the clips array when the map is absent or empty.
TimelineClips(tl) ==
    IF tl.trackItemsMap # <<>> THEN tl.trackItemsMap ELSE tl.clips

\* Fault injection: every video item is taken for a mezzanine placement.
IsAnyVideoClip(clip) == clip.type = "video"

\* clip_type == 'video' and is_mezzanine and has_src
IsMezzanineClip(clip) ==
    clip.type = "video" /\ clip.isMezzanineSegment /\ clip.src.present

\* Fault injection: a clip is put in front of the clips with the same key.
InsertBeforeEqual(sorted, clip) ==
    LET before == SelectSeq(sorted, LAMBDA c : c.from < clip.from)
        after == SelectSeq(sorted, LAMBDA c : c.from >= clip.from)
    IN  before \o <<clip>> \o after

\* One step of list.sort(key = display.from) on an ascending list: the clip
\* goes behind every clip whose key is not larger.
InsertByFrom(sorted, clip) ==
    LET before == SelectSeq(sorted, LAMBDA c : c.from <= clip.from)
        after == SelectSeq(sorted, LAMBDA c : c.from > clip.from)
    IN  before \o <<clip>> \o after

RECURSIVE SortByFrom(_)
\* mezzanine_clips.sort(key=lambda x: x.get('display', {}).get('from', 0))
SortByFrom(clips) ==
    IF clips = <<>> THEN <<>>
    ELSE InsertByFrom(SortByFrom(SubSeq(clips, 1, Len(clips) - 1)),
                      clips[Len(clips)])

\* src_url.split('/')[-1].split('?')[0]
UrlFilename(url) == [url.filename EXCEPT !.query = 0]

\* Fault injection: the existence test is left out.
PathExistsAlways(fs, path) == TRUE

\* os.path.exists(path)
PathExists(fs, path) == path \in DOMAIN fs

\* The segment entry of a clip.
ClipSegment(clip) ==
    [file_path |-> SegmentPath("mezzanine", UrlFilename(clip.src)),
     timeline_start |-> clip.from,
     scene_id |-> clip.sceneId,
     clip_id |-> clip.id]

\* extract_timeline_segments(timeline_data, analysis_id, base_dir): error is
\* the message of the VideoExportError raised.  The segment loop raises at
\* the first clip, in sorted order, whose file is missing.
ExtractTimelineSegments(tl, fs) ==
    LET clips == TimelineClips(tl)
        mezzanine_clips == SortByFrom(SelectSeq(clips, IsMezzanineClip))
        segments == [i \in 1..Len(mezzanine_clips) |-> ClipSegment(mezzanine_clips[i])]
    IN  IF clips = <<>>
        THEN [ok |-> FALSE, error |-> "No clips found in timeline data",
              segments |-> <<>>]
        ELSE IF mezzanine_clips = <<>>
        THEN [ok |-> FALSE,
              error |-> "No mezzanine video segments found in timeline",
              segments |-> <<>>]
        ELSE IF \E i \in 1..Len(segments) : ~PathExists(fs, segments[i].file_path)
        THEN [ok |-> FALSE, error |-> "Mezzanine segment file not found",
              segments |-> <<>>]
        ELSE [ok |-> TRUE, error |-> "", segments |-> segments]

\* create_ffmpeg_concat_file(segments, temp_dir): one line per segment.
CreateFfmpegConcatFile(segments, fs) ==
    IF \E i \in 1..Len(segments) : ~PathExists(fs, segments[i].file_path)
    THEN [ok |-> FALSE, error |-> "Segment file not found", manifest |-> <<>>]
    ELSE [ok |-> TRUE, error |-> "",
          manifest |-> [i \in 1..Len(segments) |-> segments[i].file_path]]

\* What the concatenating ffmpeg run can do: exit 0 with the output written,
\* exit 0 with an empty output, exit 0 without output, exit non-zero without
\* output, exit non-zero with a partial output.
ExportOutcomes == {"ok", "empty", "nooutput", "nonzero", "partial"}

\* The output file an ffmpeg run leaves; none leaves the directory as it is.
FfmpegOutput(outs, o) ==
    CASE o = "ok" -> outs \cup {[name |-> "export", size |-> 1, whole |-> TRUE]}
      [] o = "empty" -> outs \cup {[name |-> "export", size |-> 0, whole |-> TRUE]}
      [] o = "partial" -> outs \cup {[name |-> "export", size |-> 1, whole |-> FALSE]}
      [] OTHER -> outs

\* export_timeline_to_mp4(timeline_data, analysis_id, base_dir, output_path,
\* composition_settings) with the ffmpeg run ending as o.
ExportTimelineToMp4(tl, fs, outs, withSettings, o) ==
    LET ex == ExtractTimelineSegments(tl, fs)
        cf == CreateFfmpegConcatFile(ex.segments, fs)
        failed(msg, m) ==
            [ok |-> FALSE, error |-> msg, segments |-> ex.segments,
             manifest |-> m, ffmpegRuns |-> 0, mode |-> "", outputs |-> outs]
        ran == [ok |-> TRUE, error |-> "", segments |-> ex.segments,
                manifest |-> cf.manifest, ffmpegRuns |-> 1,
                mode |-> IF withSettings THEN "reencode" ELSE "copy",
                outputs |-> FfmpegOutput(outs, o)]
    IN  IF ~ex.ok THEN failed(ex.error, <<>>)
        ELSE IF ex.segments = <<>>
        THEN failed("No valid segments found for export", <<>>)
        ELSE IF ~cf.ok THEN failed(cf.error, <<>>)
        ELSE IF o \in {"nonzero", "partial"}
        THEN [ran EXCEPT !.ok = FALSE, !.error = "FFmpeg failed"]
        ELSE IF o = "nooutput"
        THEN [ran EXCEPT !.ok = FALSE, !.error = "Output file was not created"]
        ELSE ran

-----------------------------------------------------------------------------
\* The server: one event loop, requests as coroutines.

MaxReq == 2

ReqIds == 1..MaxReq

NoStored == [exists |-> FALSE, scenes |-> <<>>, storedVideoPath |-> NoVideoPath]

NoUpdate == [hasTitle |-> FALSE, title |-> <<>>, hasTags |-> FALSE, tags |-> <<>>]

NoScene == EndpointScene([scene_index |-> 0, start |-> 0, end |-> 0, duration |-> 0,
                          transition_type |-> "", segmentation_method |-> ""], 0)

NoReq ==
    [kind |-> "none", pc |-> "idle", scene |-> 0, rs |-> 0, rd |-> 0,
     upd |-> NoUpdate, data |-> NoStored, idx |-> 0, newStart |-> 0,
     exProxy |-> NoRef, exMezz |-> NoRef, regen |-> NoSegments,
     status |-> 0, saved |-> NoScene, resp |-> NoScene,
     prevBy |-> 0, source |-> NoVideoPath]

NoAck == [trimBy |-> 0, editBy |-> 0]

\* Fault injection: the handler awaits between its steps, which hands the
\* loop to the other requests.
YieldAwait(r) == 0

\* The handlers are coroutines with no await between their first and last
\* statement, and subprocess.run blocks the loop: a handler that has started
\* keeps the loop until it returns.
Yield(r) == r

Runnable(r) == running = 0 \/ running = r

\* Requests are numbered in the order they arrive.  A request arrives while
\* its predecessor still waits for the loop, so that consecutive requests are
\* in flight together; what a handler does to the record does not depend on
\* when the requests behind it arrive.
Arrives(r) ==
    /\ req[r].pc = "idle"
    /\ IF r = 1 THEN TRUE ELSE req[r - 1].pc = "ready"
    /\ running = 0

\* Requests are numbered in the order their handlers start.
InTurn(r) == IF r = 1 THEN TRUE ELSE req[r - 1].pc \notin {"idle", "ready"}

TrimArgs == { [rs |-> 0, rd |-> 1000], [rs |-> 500, rd |-> 3000] }

UpdateArgs ==
    { [hasTitle |-> TRUE, title |-> <<"A", " ">>, hasTags |-> TRUE,
       tags |-> << <<"x", " ">>, <<" ">>, <<"x">> >>],
      [hasTitle |-> TRUE, title |-> <<" ">>, hasTags |-> FALSE, tags |-> <<>>] }

SceneIds == 1..2

ServerOutcomes == {"ok", "nonzero"}

\* The two ffmpeg runs of one scene of the analysis: both succeed, the
\* proxy run fails, both fail.
AnalysisOutcomes ==
    { <<"ok", "ok">>, <<"nonzero", "ok">>, <<"nonzero", "nonzero">> }

\* The uploads: a video with one cut analysed cut-based; a video whose
\* container reports no frames, one of 1.504 s without cuts and one
\* PySceneDetect cannot read, all three analysed AI-based without a working
\* transcriber.
Uploads ==
    { [video |-> [duration |-> 6000, raw |-> RawOfCuts({4000}, 6000),
                  libError |-> FALSE, readable |-> TRUE],
       method |-> "cut-based"],
      [video |-> [duration |-> 0, raw |-> <<>>, libError |-> FALSE,
                  readable |-> TRUE],
       method |-> "ai-based"],
      [video |-> [duration |-> 1504, raw |-> <<>>, libError |-> FALSE,
                  readable |-> TRUE],
       method |-> "ai-based"],
      [video |-> [duration |-> 6000, raw |-> <<>>, libError |-> TRUE,
                  readable |-> TRUE],
       method |-> "ai-based"] }

InitServer ==
    /\ stored = NoStored
    /\ files = << >>
    /\ req = [r \in ReqIds |-> NoReq]
    /\ running = 0
    /\ acked = << >>

\* What the ffmpeg runs of the segment loop did, per scene: "notrun" for a
\* scene whose duration generate_scene_segments rejects.
LoopExits(scenes, outs) ==
    [i \in 1..Len(scenes) |->
        IF scenes[i].end - scenes[i].start > 0 THEN outs[i]
        ELSE <<"notrun", "notrun">>]

\* POST /api/analyze: the script run, the bookkeeping, the segment loop and
\* save_analysis_data.  A failing script is a 500 and stores nothing.
Analyze ==
    /\ ~stored.exists
    /\ running = 0
    /\ \E up \in Uploads :
         LET res == AnalyzeVideo(up.video, up.method, "fail", <<>>, <<>>)
             scenes == [i \in 1..Len(res.scenes) |-> EndpointScene(res.scenes[i], i)]
         IN  /\ res.ok
             /\ \E outs \in [1..Len(scenes) -> AnalysisOutcomes] :
                  LET done == RenderAll(scenes, 1, files, outs)
                  IN  /\ stored' = [exists |-> TRUE, scenes |-> done.scenes,
                                     storedVideoPath |-> OriginalVideo]
                      /\ files' = done.files
                      /\ acked' = [i \in 1..Len(scenes) |-> NoAck]
                      /\ calls' = << [fn |-> "analyze_video_endpoint",
                                      returned |-> TRUE,
                                      detected |-> res.scenes,
                                      exits |-> LoopExits(scenes, outs)] >>
    /\ UNCHANGED <<req, running>>
    /\ UNCHANGED detectVars
    /\ UNCHANGED exportVars

\* A trim request reaches the server: the loop accepts it between handlers.
ArriveTrim(r) ==
    /\ Arrives(r)
    /\ stored.exists
    /\ \E sid \in SceneIds, a \in TrimArgs :
         req' = [req EXCEPT ![r] =
                    [NoReq EXCEPT !.kind = "trim", !.pc = "ready",
                                  !.scene = sid, !.rs = a.rs, !.rd = a.rd]]
    /\ UNCHANGED <<stored, files, running, acked>>
    /\ UNCHANGED detectVars
    /\ UNCHANGED exportVars
    /\ UNCHANGED callVars

\* A title/tag edit reaches the server.
ArriveUpdate(r) ==
    /\ Arrives(r)
    /\ stored.exists
    /\ \E sid \in SceneIds, u \in UpdateArgs :
         req' = [req EXCEPT ![r] =
                    [NoReq EXCEPT !.kind = "update", !.pc = "ready",
                                  !.scene = sid, !.upd = u]]
    /\ UNCHANGED <<stored, files, running, acked>>
    /\ UNCHANGED detectVars
    /\ UNCHANGED exportVars
    /\ UNCHANGED callVars

Finish(r, code) == [req[r] EXCEPT !.pc = "done", !.status = code]

\* trim_scene_segment up to the call of regenerate_scene_segments.
TrimLoad(r) ==
    /\ req[r].kind = "trim"
    /\ req[r].pc = "ready"
    /\ InTurn(r)
    /\ Runnable(r)
    /\ \E sourceExists \in BOOLEAN :
       LET data == stored
           idx == FindScene(data.scenes, req[r].scene)
       IN  IF ~data.exists \/ ~sourceExists \/ idx = 0
           THEN /\ req' = [req EXCEPT ![r] = Finish(r, 404)]
                /\ running' = 0
           ELSE /\ req' = [req EXCEPT ![r] =
                    [@ EXCEPT
                       !.pc = "render",
                       !.data = data,
                       !.idx = idx,
                       !.source = OriginalFullVideoPath(data),
                       !.newStart = NewAbsoluteStart(data.scenes[idx], req[r].rs),
                       !.exProxy = ExistingPath(data.scenes[idx].proxy_video_url, "proxy"),
                       !.exMezz = ExistingPath(data.scenes[idx].mezzanine_video_url,
                                               "mezzanine"),
                       !.prevBy = acked[idx].trimBy]]
                /\ running' = Yield(r)
    /\ UNCHANGED <<stored, files, acked>>
    /\ UNCHANGED detectVars
    /\ UNCHANGED exportVars
    /\ UNCHANGED callVars

\* regenerate_scene_segments: the proxy render, then the mezzanine render,
\* each to the existing path of its tier; a tier that fails is left out of
\* the result.
TrimRender(r) ==
    /\ req[r].pc = "render"
    /\ Runnable(r)
    /\ \E oP \in ServerOutcomes, oM \in ServerOutcomes, sourceExists \in BOOLEAN :
         LET pPath == RegeneratePath(req[r].scene, "proxy", req[r].exProxy)
             mPath == RegeneratePath(req[r].scene, "mezzanine", req[r].exMezz)
             gp == GenerateSegment(files, sourceExists, pPath,
                                   req[r].newStart, req[r].rd, oP)
             gm == GenerateSegment(gp.files, sourceExists, mPath,
                                   req[r].newStart, req[r].rd, oM)
         IN  /\ files' = gm.files
             /\ req' = [req EXCEPT ![r] =
                  [@ EXCEPT
                     !.pc = "save",
                     !.regen =
                        [proxy_video_path |-> IF gp.ok THEN pPath ELSE NoRef,
                         proxy_video_url |->
                            IF gp.ok THEN RegeneratedUrl("proxy", pPath)
                            ELSE NoRef,
                         mezzanine_video_path |-> IF gm.ok THEN mPath ELSE NoRef,
                         mezzanine_video_url |->
                            IF gm.ok THEN RegeneratedUrl("mezzanine", mPath)
                            ELSE NoRef]]]
    /\ running' = Yield(r)
    /\ UNCHANGED <<stored, acked>>
    /\ UNCHANGED detectVars
    /\ UNCHANGED exportVars
    /\ UNCHANGED callVars

\* The rest of trim_scene_segment: the scene entry is replaced in the loaded
\* analysis_data, which is saved, and the response is a 200.
TrimSave(r) ==
    /\ req[r].kind = "trim"
    /\ req[r].pc = "save"
    /\ Runnable(r)
    /\ LET data == req[r].data
           idx == req[r].idx
           updated == UpdatedSceneMetadata(data.scenes[idx], req[r].newStart,
                                           req[r].rd, req[r].regen)
       IN  /\ stored' = ReplaceScene(data, idx, updated)
           /\ req' = [req EXCEPT ![r] =
                [Finish(r, 200) EXCEPT
                    !.saved = updated,
                    !.resp = TrimResponseScene(updated, req[r].regen)]]
           /\ acked' = [acked EXCEPT ![idx].trimBy = r]
    /\ running' = 0
    /\ UNCHANGED files
    /\ UNCHANGED detectVars
    /\ UNCHANGED exportVars
    /\ UNCHANGED callVars

\* update_scene_metadata up to the validation of the title.
UpdateLoad(r) ==
    /\ req[r].kind = "update"
    /\ req[r].pc = "ready"
    /\ InTurn(r)
    /\ Runnable(r)
    /\ LET data == stored
           idx == FindScene(data.scenes, req[r].scene)
       IN  IF ~data.exists \/ idx = 0
           THEN /\ req' = [req EXCEPT ![r] = Finish(r, 404)]
                /\ running' = 0
           ELSE IF req[r].upd.hasTitle /\ Strip(req[r].upd.title) = <<>>
           THEN /\ req' = [req EXCEPT ![r] = [Finish(r, 400) EXCEPT !.data = data,
                                                                    !.idx = idx]]
                /\ running' = 0
           ELSE /\ req' = [req EXCEPT ![r] =
                    [@ EXCEPT !.pc = "save", !.data = data, !.idx = idx]]
                /\ running' = Yield(r)
    /\ UNCHANGED <<stored, files, acked>>
    /\ UNCHANGED detectVars
    /\ UNCHANGED exportVars
    /\ UNCHANGED callVars

\* The rest of update_scene_metadata: the edit and save_analysis_data.
UpdateSave(r) ==
    /\ req[r].kind = "update"
    /\ req[r].pc = "save"
    /\ Runnable(r)
    /\ LET data == req[r].data
           idx == req[r].idx
           edited == EditedScene(data.scenes[idx], req[r].upd)
       IN  /\ stored' = [data EXCEPT !.scenes[idx] = edited]
           /\ req' = [req EXCEPT ![r] =
                [Finish(r, 200) EXCEPT !.saved = edited, !.resp = edited]]
           /\ acked' = [acked EXCEPT ![idx].editBy = r]
    /\ running' = 0
    /\ UNCHANGED files
    /\ UNCHANGED detectVars
    /\ UNCHANGED exportVars
    /\ UNCHANGED callVars

Next ==
    \/ Analyze
    \/ \E r \in ReqIds :
         \/ ArriveTrim(r)
         \/ ArriveUpdate(r)
         \/ TrimLoad(r)
         \/ TrimRender(r)
         \/ TrimSave(r)
         \/ UpdateLoad(r)
         \/ UpdateSave(r)

IdleDetect ==
    /\ video = [duration |-> 0, raw |-> <<>>, libError |-> FALSE, readable |-> TRUE]
    /\ method = "cut-based"
    /\ capability = "fail"
    /\ segs = <<>>
    /\ audio = <<>>
    /\ cutOut = NotRun
    /\ aiOut = NotRun
    /\ analysis = NotRun

Init == InitServer /\ IdleDetect /\ IdleExport /\ NoCalls

Spec == Init /\ [][Next]_vars

-----------------------------------------------------------------------------
\* The export of a timeline (main.py: export_timeline_video).

MaxClips == 3

Froms == {0, 5, 10}

ExportScenes == 1..2

\* The mezzanine URL of a scene as the timeline holds it: the stored URL, or
\* the cache-busted URL of a trim response.
ClipSrc(scene) ==
    LET url == SegmentUrl("mezzanine", SegmentFilename(scene, "mezzanine"))
    IN  IF scene = 2 THEN CacheBusted(url) ELSE url

\* Placements of mezzanine segments, and items the exporter has to ignore:
\* an audio item, a video item that is no mezzanine segment, one without src.
ClipPool ==
    { [type |-> "video", isMezzanineSegment |-> TRUE, src |-> ClipSrc(sc),
       from |-> f, sceneId |-> sc] : sc \in ExportScenes, f \in Froms }
    \cup { [type |-> "audio", isMezzanineSegment |-> TRUE, src |-> ClipSrc(1),
            from |-> 0, sceneId |-> 1],
           [type |-> "video", isMezzanineSegment |-> FALSE, src |-> ClipSrc(1),
            from |-> 0, sceneId |-> 1],
           [type |-> "video", isMezzanineSegment |-> TRUE, src |-> NoRef,
            from |-> 0, sceneId |-> 1] }

RECURSIVE ClipLists(_)
ClipLists(n) ==
    IF n = 0 THEN { <<>> }
    ELSE LET shorter == ClipLists(n - 1)
         IN  shorter \cup
             { Append(l, c) : l \in {x \in shorter : Len(x) = n - 1},
                              c \in ClipPool }

\* The id of an item is its key in the timeline, here its position.
WithIds(l) == [i \in 1..Len(l) |-> [id |-> i] @@ l[i]]

Timelines ==
    { [trackItemsMap |-> WithIds(l), clips |-> <<>>] : l \in ClipLists(MaxClips) }
    \cup { [trackItemsMap |-> <<>>, clips |-> WithIds(l)] : l \in ClipLists(MaxClips) }

\* The mezzanine files of the scenes as the analysis rendered them.
RenderedMezzanine ==
    [q \in {SegmentPath("mezzanine", SegmentFilename(sc, "mezzanine")) :
              sc \in ExportScenes}
        |-> [valid |-> TRUE, start |-> 0, dur |-> 1000]]

InitExport ==
    /\ timeline \in Timelines
    /\ export = NoExport
    /\ outputs = {}
    /\ stored \in {NoStored, [exists |-> TRUE, scenes |-> <<>>,
                               storedVideoPath |-> OriginalVideo]}
    /\ files = RenderedMezzanine
    /\ req = << >>
    /\ running = 0
    /\ acked = << >>
    /\ IdleDetect
    /\ NoCalls

\* A mezzanine file is removed from the disk behind the server's back.
DeleteSegment ==
    /\ export.pc = "idle"
    /\ \E q \in DOMAIN files : files' = RemoveFile(files, q)
    /\ UNCHANGED <<stored, req, running, acked>>
    /\ UNCHANGED detectVars
    /\ UNCHANGED exportVars
    /\ UNCHANGED callVars

\* The segment files the timeline's mezzanine placements name.
ReferencedPaths(tl) ==
    LET m == SelectSeq(TimelineClips(tl), IsMezzanineClip)
    IN  {ClipSegment(m[i]).file_path : i \in 1..Len(m)}

\* POST /api/export/video: 500 with the message of a VideoExportError, 200
\* with the download URL.  Without the analysis record the handler raises an
\* HTTPException(404) inside its try block, which has no clause for it: the
\* "except Exception" clause turns it into a 500 "Unexpected error".
ExportTimelineVideo ==
    /\ export.pc = "idle"
    /\ \E withSettings \in BOOLEAN, o \in ExportOutcomes :
         LET res == ExportTimelineToMp4(timeline, files, outputs, withSettings, o)
             missing == {q \in ReferencedPaths(timeline) : q \notin DOMAIN files}
         IN  IF ~stored.exists
             THEN /\ export' = [NoExport EXCEPT !.pc = "done", !.status = 500,
                                                !.error = "Unexpected error",
                                                !.missing = missing]
                  /\ outputs' = outputs
             ELSE /\ export' =
                       [pc |-> "done",
                        status |-> IF res.ok THEN 200 ELSE 500,
                        error |-> res.error,
                        segments |-> res.segments,
                        manifest |-> res.manifest,
                        ffmpegRuns |-> res.ffmpegRuns,
                        mode |-> res.mode,
                        missing |-> missing]
                  /\ outputs' = res.outputs
    /\ UNCHANGED serverVars
    /\ UNCHANGED detectVars
    /\ UNCHANGED callVars
    /\ UNCHANGED timeline

NextExport == DeleteSegment \/ ExportTimelineVideo

SpecExport == InitExport /\ [][NextExport]_vars

-----------------------------------------------------------------------------
\* The rendering and export functions called one after the other on one
\* disk (video_segmentation.py, video_export.py).

MaxCalls == 2

\* The output paths of scene 1.
RenderPaths ==
    { SegmentPath(t, SegmentFilename(1, t)) : t \in Tiers }

RenderWindows == { [start |-> 0, dur |-> 1000], [start |-> 500, dur |-> 3000] }

\* scene_data: a scene of 4 s, and one whose end is its start.
RenderScenes ==
    { [sceneId |-> 1, start |-> 0, end |-> 4000],
      [sceneId |-> 2, start |-> 2000, end |-> 2000] }

\* composition_settings: None, an empty dictionary, width/height/fps.
CompositionSettings ==
    { [given |-> FALSE, keys |-> {}],
      [given |-> TRUE, keys |-> {}],
      [given |-> TRUE, keys |-> {"width", "height", "fps"}] }

\* "if composition_settings:" - None and the empty dictionary are false.
Truthy(settings) == settings.given /\ settings.keys # {}

\* A timeline with one placement of the mezzanine segment of scene 1, and
\* one with an audio item only.
CallTimelines ==
    { [trackItemsMap |-> <<>>,
       clips |-> << [id |-> 1, type |-> "video", isMezzanineSegment |-> TRUE,
                     src |-> ClipSrc(1), from |-> 0, sceneId |-> 1] >>],
      [trackItemsMap |-> <<>>,
       clips |-> << [id |-> 1, type |-> "audio", isMezzanineSegment |-> TRUE,
                     src |-> ClipSrc(1), from |-> 0, sceneId |-> 1] >>] }

\* The concatenating run of export_timeline_to_mp4 may also never exit:
\* its subprocess.run has no timeout argument.
ExportRunOutcomes == ExportOutcomes \cup {"hang"}

\* A call that has not returned blocks its caller.
Pending == \E i \in 1..Len(calls) : ~calls[i].returned

CanCall == Len(calls) < MaxCalls /\ ~Pending

InitRender ==
    /\ calls = <<>>
    /\ files = << >>
    /\ stored = NoStored
    /\ req = << >>
    /\ running = 0
    /\ acked = << >>
    /\ IdleDetect
    /\ IdleExport

\* generate_segment(source, path, start, duration, settings) is called; exit
\* is what the ffmpeg process did, "notrun" when it was not started.
CallGenerateSegment ==
    /\ CanCall
    /\ \E srcOk \in BOOLEAN, path \in RenderPaths, w \in RenderWindows,
          o \in FfmpegOutcomes :
         LET g == GenerateSegment(files, srcOk, path, w.start, w.dur, o)
         IN  /\ files' = g.files
             /\ calls' = Append(calls,
                  [fn |-> "generate_segment", returned |-> TRUE,
                   srcOk |-> srcOk, path |-> path,
                   start |-> w.start, dur |-> w.dur,
                   exit |-> IF g.invoked THEN o ELSE "notrun",
                   ok |-> g.ok, exception |-> g.exception,
                   clause |-> g.error, message |-> g.message,
                   command |-> g.command,
                   outputExists |-> PathExists(g.files, path)])
    /\ UNCHANGED <<stored, req, running, acked>>
    /\ UNCHANGED detectVars
    /\ UNCHANGED exportVars

\* generate_scene_segments(analysis_id, source, scene_data, base_dir) is
\* called; exitProxy and exitMezzanine are what the two ffmpeg processes
\* would do.
CallGenerateSceneSegments ==
    /\ CanCall
    /\ \E srcOk \in BOOLEAN, scene \in RenderScenes,
          oP \in FfmpegOutcomes, oM \in FfmpegOutcomes :
         LET g == GenerateSceneSegments(files, srcOk, scene, oP, oM)
             valid == scene.end - scene.start > 0
         IN  /\ files' = g.files
             /\ calls' = Append(calls,
                  [fn |-> "generate_scene_segments", returned |-> TRUE,
                   srcOk |-> srcOk, scene |-> scene,
                   exitProxy |-> IF valid /\ srcOk THEN oP ELSE "notrun",
                   exitMezzanine |-> IF valid /\ srcOk THEN oM ELSE "notrun",
                   ok |-> g.ok, segments |-> g.segments,
                   attempted |-> g.attempted, message |-> g.message,
                   onDisk |-> {t \in Tiers :
                       PathExists(g.files,
                           SegmentPath(t, SegmentFilename(scene.sceneId, t)))}])
    /\ UNCHANGED <<stored, req, running, acked>>
    /\ UNCHANGED detectVars
    /\ UNCHANGED exportVars

\* export_timeline_to_mp4(timeline_data, analysis_id, base_dir, output_path,
\* composition_settings) is called.  When the ffmpeg process never exits the
\* call does not return.
CallExportTimelineToMp4 ==
    /\ CanCall
    /\ \E tl \in CallTimelines, settings \in CompositionSettings,
          o \in ExportRunOutcomes :
         LET res == ExportTimelineToMp4(tl, files, outputs, Truthy(settings),
                        IF o = "hang" THEN "nooutput" ELSE o)
             hangs == res.ffmpegRuns = 1 /\ o = "hang"
         IN  /\ outputs' = IF hangs THEN outputs ELSE res.outputs
             /\ calls' = Append(calls,
                  [fn |-> "export_timeline_to_mp4", returned |-> ~hangs,
                   timeline |-> tl, settings |-> settings,
                   exit |-> IF res.ffmpegRuns = 1 THEN o ELSE "notrun",
                   ok |-> ~hangs /\ res.ok,
                   message |-> IF hangs THEN "" ELSE res.error,
                   ffmpegRuns |-> res.ffmpegRuns,
                   mode |-> res.mode])
    /\ UNCHANGED <<timeline, export>>
    /\ UNCHANGED serverVars
    /\ UNCHANGED detectVars

NextRender ==
    \/ CallGenerateSegment
    \/ CallGenerateSceneSegments
    \/ CallExportTimelineToMp4

SpecRender == InitRender /\ [][NextRender]_vars

\* Python runs the caller until it returns or blocks.
FairSpecRender == SpecRender /\ WF_vars(NextRender)

-----------------------------------------------------------------------------
\* Properties of the detection runs (SpecDetect).

\* A scene list covers [0, d): it starts at 0, each scene starts where the
\* previous one ends, and the last one ends at d (d > 0; a container that
\* reports no frames has no duration to end at).
Contiguous(scenes, d) ==
    scenes # <<>> =>
        /\ scenes[1].start = 0
        /\ \A i \in 1..(Len(scenes) - 1) : scenes[i + 1].start = scenes[i].end
        /\ d > 0 => scenes[Len(scenes)].end = Round2(d)

\* C8: every scene sequence returned by detect_scenes and by detect_scenes_ai
\* starts at 0, has no gaps and no overlaps, and ends at the video duration.
C8_BothDetectorsContiguous ==
    /\ cutOut.run /\ cutOut.ok => Contiguous(cutOut.scenes, video.duration)
    /\ aiOut.run => Contiguous(aiOut.scenes, video.duration)

\* The part of C8 that the code keeps: the cut-based detector's list is
\* contiguous from 0 to the duration.
C8_CutBasedContiguous ==
    cutOut.run /\ cutOut.ok => Contiguous(cutOut.scenes, video.duration)

C8_CutBasedSeveralScenes ==
    cutOut.run /\ cutOut.ok /\ Len(cutOut.scenes) >= 3

\* start, end and transition_type of each scene of a list
Boundaries(scenes) ==
    [i \in 1..Len(scenes) |->
        [start |-> scenes[i].start, end |-> scenes[i].end,
         transition_type |-> scenes[i].transition_type]]

NoTranscript == capability \in {"noaudio", "fail", "empty"}

\* C9: when audio extraction fails, the transcriber fails or it returns
\* nothing, detect_scenes_ai returns the scenes detect_scenes returns (same
\* start, end and transition_type), and analyze_video does not fail.
C9_AiDegradesToCutBased ==
    /\ NoTranscript /\ aiOut.run /\ cutOut.run /\ cutOut.ok
         => Boundaries(aiOut.scenes) = Boundaries(cutOut.scenes)
    /\ NoTranscript /\ analysis.run /\ method = "ai-based"
         /\ video.readable /\ ~video.libError
         => analysis.ok

-----------------------------------------------------------------------------
\* Properties of the server (Spec).

\* A trim whose renders have all run and none succeeded.
TrimFailed(r) ==
    /\ req[r].kind = "trim"
    /\ req[r].pc = "save"
    /\ ~req[r].regen.proxy_video_url.present
    /\ ~req[r].regen.mezzanine_video_url.present

\* C1: a trim whose renders do not succeed is answered with a failure and
\* leaves the stored analysis record as it was before the request.
C1_FailedTrimLeavesRecord ==
    [][\A r \in ReqIds :
          TrimFailed(r) /\ req'[r].pc = "done"
              => req'[r].status # 200 /\ stored' = stored]_vars

\* C10: every scene of a stored analysis has end_original > start_original
\* and current_trimmed_duration > 0, after the analysis and after any trims
\* and edits.
C10_StoredScenesNonEmpty ==
    stored.exists =>
        \A i \in 1..Len(stored.scenes) :
            /\ stored.scenes[i].end_original > stored.scenes[i].start_original
            /\ stored.scenes[i].current_trimmed_duration > 0

\* The part of C10 that the code keeps: a trim leaves the trimmed scene with
\* a non-empty window.
C10_TrimmedScenesNonEmpty ==
    \A r \in ReqIds :
        req[r].kind = "trim" /\ req[r].status = 200 =>
            /\ req[r].saved.end_original > req[r].saved.start_original
            /\ req[r].saved.current_trimmed_duration > 0

\* The timing fields of a scene entry.
Window(sc) ==
    [start_original |-> sc.start_original, end_original |-> sc.end_original,
     start |-> sc.start, end |-> sc.end, duration |-> sc.duration,
     current_trimmed_start |-> sc.current_trimmed_start,
     current_trimmed_duration |-> sc.current_trimmed_duration]

\* C2: after a successful trim(scene, rs, rd) the stored scene has
\* end_original - start_original = rd and current_trimmed_start = 0.
C2_TrimInvariant ==
    \A j \in 1..Len(acked) :
        LET r == acked[j].trimBy
        IN  r # 0 =>
              /\ stored.scenes[j].end_original
                   - stored.scenes[j].start_original = req[r].rd
              /\ stored.scenes[j].current_trimmed_start = 0

\* A trim with a positive offset has been answered with a 200.
C2_TrimmedWithOffset ==
    \E j \in 1..Len(acked) :
        /\ acked[j].trimBy # 0
        /\ req[acked[j].trimBy].rs > 0
        /\ req[acked[j].trimBy].status = 200

\* Request r is a successful trim that directly follows the successful trim
\* p of the same scene and has the same arguments.
RepeatsTrim(r, p) ==
    /\ req[r].kind = "trim" /\ req[r].status = 200
    /\ p = req[r].prevBy /\ p # 0
    /\ req[p].rs = req[r].rs /\ req[p].rd = req[r].rd

\* C3 as stated: trimming a scene twice in succession with the same
\* (relative_start, relative_duration) leaves the window (start_original,
\* end_original) as one trim leaves it.
C3_TrimIdempotent ==
    \A r \in ReqIds : \A p \in ReqIds :
        RepeatsTrim(r, p) =>
            /\ req[r].saved.start_original = req[p].saved.start_original
            /\ req[r].saved.end_original = req[p].saved.end_original

\* C3 as the code has it: relative_start is taken from the start of the
\* segment as it is now, so the second trim moves the window by
\* relative_start again; the window is the one of a single trim exactly when
\* relative_start = 0, the duration is relative_duration either way, and the
\* derivative URLs stay those of the first trim.
C3_RepeatedTrimShiftsWindow ==
    \A r \in ReqIds : \A p \in ReqIds :
        RepeatsTrim(r, p) =>
            /\ req[r].saved.start_original
                 = req[p].saved.start_original + req[r].rs
            /\ req[r].saved.end_original
                 = req[p].saved.end_original + req[r].rs
            /\ req[r].saved.duration = req[p].saved.duration
            /\ (Window(req[r].saved) = Window(req[p].saved)) = (req[r].rs = 0)
            /\ req[p].saved.proxy_video_url.present
                 /\ req[r].regen.proxy_video_url.present
                 => req[r].saved.proxy_video_url = req[p].saved.proxy_video_url
            /\ req[p].saved.mezzanine_video_url.present
                 /\ req[r].regen.mezzanine_video_url.present
                 => req[r].saved.mezzanine_video_url
                      = req[p].saved.mezzanine_video_url

\* A trim with a positive offset has been repeated, both renders of the
\* repetition succeeding.
C3_RepeatedWithOffset ==
    \E r \in ReqIds : \E p \in ReqIds :
        /\ RepeatsTrim(r, p)
        /\ req[r].rs > 0
        /\ req[r].regen.proxy_video_url.present
        /\ req[r].regen.mezzanine_video_url.present

\* C6: no update is lost.  Each scene of the stored record carries the window
\* of the last trim answered with a 200 for it and the title and tags of the
\* last edit answered with a 200 for it, whatever else was handled meanwhile.
C6_NoLostUpdate ==
    stored.exists =>
        \A j \in 1..Len(acked) :
            /\ acked[j].trimBy # 0 =>
                 Window(stored.scenes[j]) = Window(req[acked[j].trimBy].saved)
            /\ acked[j].editBy # 0 =>
                 /\ stored.scenes[j].title = req[acked[j].editBy].saved.title
                 /\ stored.scenes[j].tags = req[acked[j].editBy].saved.tags

\* Two trims of two different scenes that were in flight together (the
\* second arrived before the first was started) have both been answered
\* with a 200.
C6_TwoTrimsOverlapped ==
    \E r \in ReqIds : \E o \in ReqIds :
        /\ o = r + 1
        /\ req[r].kind = "trim" /\ req[o].kind = "trim"
        /\ req[r].status = 200 /\ req[o].status = 200
        /\ req[r].scene # req[o].scene

\* The path of a scene's derivative of a tier.
CanonicalPath(sceneId, tier) == SegmentPath(tier, SegmentFilename(sceneId, tier))

\* C7: the derivative paths of a scene depend on (analysis_id, sceneId, tier)
\* only.  Every file on disk is the proxy or mezzanine file of a stored
\* scene at the path of its first rendering, every stored URL names that
\* file, every trim renders to that path, and with no handler running the
\* file of a tier holds the window of the last trim that rendered it.
C7_DerivativesInPlace ==
    /\ \A q \in DOMAIN files :
         \E j \in 1..Len(stored.scenes) : \E t \in Tiers :
            q = CanonicalPath(stored.scenes[j].sceneId, t)
    /\ \A j \in 1..Len(stored.scenes) :
         LET sc == stored.scenes[j]
         IN  /\ sc.proxy_video_url.present =>
                  sc.proxy_video_url
                    = SegmentUrl("proxy", SegmentFilename(sc.sceneId, "proxy"))
             /\ sc.mezzanine_video_url.present =>
                  sc.mezzanine_video_url
                    = SegmentUrl("mezzanine",
                                 SegmentFilename(sc.sceneId, "mezzanine"))
    /\ \A r \in ReqIds :
         /\ req[r].regen.proxy_video_path.present =>
              req[r].regen.proxy_video_path = CanonicalPath(req[r].scene, "proxy")
         /\ req[r].regen.mezzanine_video_path.present =>
              req[r].regen.mezzanine_video_path
                = CanonicalPath(req[r].scene, "mezzanine")
    /\ running = 0 =>
         \A j \in 1..Len(acked) :
            LET r == acked[j].trimBy
                sid == stored.scenes[j].sceneId
            IN  r # 0 =>
                  /\ req[r].regen.proxy_video_path.present =>
                       files[CanonicalPath(sid, "proxy")]
                         = [valid |-> TRUE, start |-> req[r].saved.start_original,
                            dur |-> req[r].rd]
                  /\ req[r].regen.mezzanine_video_path.present =>
                       files[CanonicalPath(sid, "mezzanine")]
                         = [valid |-> TRUE, start |-> req[r].saved.start_original,
                            dur |-> req[r].rd]

\* A scene rendered by the analysis has been trimmed twice, every render
\* succeeding, and its two files are the only files of the scene.
C7_TrimmedTwiceInPlace ==
    \E r \in ReqIds : \E p \in ReqIds :
        /\ req[r].kind = "trim" /\ req[r].status = 200
        /\ req[r].prevBy = p /\ p # 0
        /\ req[r].exProxy.present /\ req[r].exMezz.present
        /\ req[r].regen.proxy_video_path.present
        /\ req[r].regen.mezzanine_video_path.present
        /\ req[p].regen.proxy_video_path.present
        /\ req[p].regen.mezzanine_video_path.present
        /\ Cardinality({q \in DOMAIN files : q.filename.scene = req[r].scene}) = 2

-----------------------------------------------------------------------------
\* Properties of the export (SpecExport).

\* The placements of the timeline that name a mezzanine segment, in the
\* order of the timeline.
Placements == SelectSeq(TimelineClips(timeline), IsMezzanineClip)

\* C4: the manifest has one line per mezzanine placement, in ascending
\* timeline_start; placements with equal timeline_start keep the order they
\* have in the timeline; line i is the file of segment i of the sorted list.
C4_ManifestAscendingStable ==
    export.pc = "done" /\ export.manifest # <<>> =>
        LET sorted == export.segments
        IN  /\ Len(sorted) = Len(Placements)
            /\ Len(export.manifest) = Len(sorted)
            /\ \A k \in 1..Len(Placements) :
                 \E i \in 1..Len(sorted) : sorted[i] = ClipSegment(Placements[k])
            /\ \A i \in 1..Len(sorted) : export.manifest[i] = sorted[i].file_path
            /\ \A i \in 1..Len(sorted) : \A j \in 1..Len(sorted) :
                 i < j =>
                    \/ sorted[i].timeline_start < sorted[j].timeline_start
                    \/ /\ sorted[i].timeline_start = sorted[j].timeline_start
                       /\ sorted[i].clip_id < sorted[j].clip_id

\* Three placements at 10, 0 and 5 have been exported: the manifest lists
\* the one at 0, then the one at 5, then the one at 10.
C4_TenZeroFive ==
    /\ export.pc = "done" /\ export.status = 200
    /\ Len(Placements) = 3
    /\ Placements[1].from = 10 /\ Placements[2].from = 0 /\ Placements[3].from = 5
    /\ export.manifest = << ClipSegment(Placements[2]).file_path,
                            ClipSegment(Placements[3]).file_path,
                            ClipSegment(Placements[1]).file_path >>

\* Two placements of different scenes at the same timeline_start have been
\* exported behind a later one.
C4_TieExported ==
    /\ export.pc = "done" /\ export.manifest # <<>>
    /\ Len(Placements) = 3
    /\ Placements[1].from = 5 /\ Placements[2].from = 0 /\ Placements[3].from = 0
    /\ Placements[2].sceneId # Placements[3].sceneId

MissingSegmentErrors ==
    {"Mezzanine segment file not found", "Segment file not found"}

\* C5: when the analysis exists and a mezzanine file named by a placement is
\* not on disk as the export starts, the export fails with a missing-segment
\* error, ffmpeg is not run and the exports directory gets no file.
C5_MissingSegmentStopsExport ==
    export.pc = "done" /\ stored.exists /\ export.missing # {} =>
        /\ export.status = 500
        /\ export.error \in MissingSegmentErrors
        /\ export.ffmpegRuns = 0
        /\ export.manifest = <<>>
        /\ outputs = {}

\* An export of placements of two scenes, the file of one of them deleted,
\* has been answered.
C5_OneOfTwoDeleted ==
    /\ export.pc = "done" /\ export.status = 500
    /\ stored.exists
    /\ Cardinality(ReferencedPaths(timeline)) = 2
    /\ Cardinality(export.missing) = 1

-----------------------------------------------------------------------------
\* Properties of the rendering and export calls (SpecRender).

CallsOf(fn) == {i \in 1..Len(calls) : calls[i].fn = fn /\ calls[i].returned}

\* C11: in generate_scene_segments the two tiers are rendered independently.
\* For a scene of positive duration both tiers are attempted whatever the
\* other one did, the returned dictionary has the references of exactly the
\* tiers whose ffmpeg run succeeded, their files are on disk, and the call
\* raises only when neither tier succeeded.
C11_TiersIndependent ==
    \A i \in CallsOf("generate_scene_segments") :
        LET c == calls[i]
            okP == c.exitProxy = "ok"
            okM == c.exitMezzanine = "ok"
        IN  /\ c.scene.end - c.scene.start > 0 => c.attempted = Tiers
            /\ c.ok <=> (okP \/ okM)
            /\ c.segments.proxy_video_path.present <=> okP
            /\ c.segments.proxy_video_url.present <=> okP
            /\ c.segments.mezzanine_video_path.present <=> okM
            /\ c.segments.mezzanine_video_url.present <=> okM
            /\ okP => "proxy" \in c.onDisk
            /\ okM => "mezzanine" \in c.onDisk

\* One call has returned the proxy alone after the mezzanine run timed out,
\* and another the mezzanine alone after the proxy run exited non-zero.
C11_EachTierAlone ==
    /\ \E i \in CallsOf("generate_scene_segments") :
         /\ calls[i].ok
         /\ calls[i].exitProxy = "ok" /\ calls[i].exitMezzanine = "timeout"
         /\ calls[i].segments.proxy_video_url.present
    /\ \E i \in CallsOf("generate_scene_segments") :
         /\ calls[i].ok
         /\ calls[i].exitProxy = "nonzero" /\ calls[i].exitMezzanine = "ok"
         /\ calls[i].segments.mezzanine_video_url.present

-----------------------------------------------------------------------------
\* Properties of the analysis (Spec).

\* C12: a rendering failure of one scene of the bulk analysis does not stop
\* the others.  The saved record has one scene per detected scene, in the
\* order of detection, and each scene was rendered according to its own
\* ffmpeg runs alone: a tier whose run succeeded is referenced and on disk
\* whatever happened to the scenes before it, and as long as the scene has
\* not been trimmed a tier whose run failed is not referenced.
C12_SceneFailuresIsolated ==
    \A i \in 1..Len(calls) :
        calls[i].fn = "analyze_video_endpoint" =>
            LET c == calls[i]
            IN  /\ stored.exists
                /\ Len(stored.scenes) = Len(c.detected)
                /\ \A k \in 1..Len(c.detected) :
                     LET sc == stored.scenes[k]
                     IN  /\ sc.scene_index = c.detected[k].scene_index
                         /\ sc.sceneId = k
                         /\ c.exits[k][1] = "ok" =>
                              /\ sc.proxy_video_url.present
                              /\ PathExists(files, SegmentPath("proxy",
                                     SegmentFilename(k, "proxy")))
                         /\ c.exits[k][2] = "ok" =>
                              /\ sc.mezzanine_video_url.present
                              /\ PathExists(files, SegmentPath("mezzanine",
                                     SegmentFilename(k, "mezzanine")))
                         /\ acked[k].trimBy = 0 =>
                              /\ sc.proxy_video_url.present => c.exits[k][1] = "ok"
                              /\ sc.mezzanine_video_url.present
                                    => c.exits[k][2] = "ok"

\* An analysis of two scenes has been saved in which both runs of the first
\* scene failed and both runs of the second succeeded.
C12_FirstFailedSecondRendered ==
    /\ stored.exists /\ Len(stored.scenes) = 2
    /\ Len(calls) = 1
    /\ calls[1].exits[1] = <<"nonzero", "nonzero">>
    /\ calls[1].exits[2] = <<"ok", "ok">>
    /\ ~stored.scenes[1].proxy_video_url.present
    /\ ~stored.scenes[1].mezzanine_video_url.present
    /\ stored.scenes[2].proxy_video_url.present
    /\ stored.scenes[2].mezzanine_video_url.present
    /\ \A r \in ReqIds : req[r].pc = "idle"

-----------------------------------------------------------------------------
\* Properties of the export, continued (SpecExport).

\* The items of the timeline that are video clips flagged as mezzanine
\* segments with a source.
Considered ==
    SelectSeq(TimelineClips(timeline),
              LAMBDA c : c.type = "video" /\ c.isMezzanineSegment /\ c.src.present)

NoSegmentsErrors ==
    {"No clips found in timeline data",
     "No mezzanine video segments found in timeline"}

\* C13: with the analysis present, the export takes its segments from the
\* video items flagged as mezzanine segments with a source and from no other
\* item; when there is no such item it fails with a no-segments error, no
\* manifest is written, ffmpeg is not run and no output file appears.
C13_OnlyMezzaninePlacements ==
    export.pc = "done" /\ stored.exists =>
        /\ Considered = <<>> =>
              /\ export.status = 500
              /\ export.error \in NoSegmentsErrors
              /\ export.manifest = <<>>
              /\ export.ffmpegRuns = 0
              /\ outputs = {}
        /\ export.segments # <<>> =>
              {export.segments[i].clip_id : i \in 1..Len(export.segments)}
                 = {Considered[i].id : i \in 1..Len(Considered)}
        /\ export.manifest # <<>> => Len(export.manifest) = Len(Considered)

\* A timeline of an audio item, a video item that is no mezzanine segment
\* and a mezzanine item without source has been refused.
C13_ThreeIgnoredItems ==
    /\ export.pc = "done" /\ stored.exists
    /\ Len(TimelineClips(timeline)) = 3
    /\ Considered = <<>>
    /\ \E i \in 1..3 : TimelineClips(timeline)[i].type = "audio"
    /\ \E i \in 1..3 : ~TimelineClips(timeline)[i].isMezzanineSegment
    /\ \E i \in 1..3 : ~TimelineClips(timeline)[i].src.present
    /\ export.error = "No mezzanine video segments found in timeline"

\* C15: the export answers with success only if ffmpeg exited with 0 and the
\* output file exists and is not empty.
C15_SuccessHasNonEmptyOutput ==
    export.pc = "done" /\ export.status = 200 =>
        /\ export.ffmpegRuns = 1
        /\ \E f \in outputs : f.whole /\ f.size > 0

-----------------------------------------------------------------------------
\* Properties of the rendering and export calls, continued (SpecRender).

AllCallsOf(fn) == {i \in 1..Len(calls) : calls[i].fn = fn}

\* C14: the mode of the concatenating ffmpeg run is chosen from
\* composition_settings alone: stream copy when none are given, scale and
\* re-encode whenever they are given.
C14_ModeFromSettings ==
    \A i \in AllCallsOf("export_timeline_to_mp4") :
        calls[i].ffmpegRuns = 1 =>
            /\ calls[i].mode \in {"copy", "reencode"}
            /\ ~calls[i].settings.given => calls[i].mode = "copy"
            /\ calls[i].settings.given => calls[i].mode = "reencode"

\* Why a generate_segment call failed.
Cause(c) == IF ~c.srcOk THEN "nosource" ELSE c.exit

\* C16: the failures of generate_segment carry a tag that tells their kinds
\* apart: two calls that failed for different reasons (missing source,
\* non-zero exit, timeout, missing output) raise errors of different tags.
C16_FailureKindsTagged ==
    \A i \in CallsOf("generate_segment") : \A j \in CallsOf("generate_segment") :
        /\ ~calls[i].ok /\ ~calls[j].ok
        /\ Cause(calls[i]) # Cause(calls[j])
        => calls[i].exception # calls[j].exception

\* C17: a generate_segment call whose source does not exist fails with the
\* source-not-found message and does not run ffmpeg.
C17_MissingSourceNotInvoked ==
    \A i \in CallsOf("generate_segment") :
        ~calls[i].srcOk =>
            /\ ~calls[i].ok
            /\ calls[i].message = "Input video file not found"
            /\ ~calls[i].command.run
            /\ calls[i].exit = "notrun"

\* generate_segment has been called without its source, after a call that
\* rendered to the same path.
C17_CalledWithoutSource ==
    \E i \in CallsOf("generate_segment") : \E j \in CallsOf("generate_segment") :
        /\ i < j
        /\ calls[i].ok /\ calls[i].path = calls[j].path
        /\ ~calls[j].srcOk /\ ~calls[j].ok

\* C18: generate_segment returns True only if ffmpeg exited with 0 and the
\* output file exists afterwards; an exit of 0 without output is a failure;
\* the one ffmpeg run of a call seeks to the start of the window and takes
\* its duration.
C18_SuccessIsVerified ==
    \A i \in CallsOf("generate_segment") :
        LET c == calls[i]
        IN  /\ c.ok => c.exit = "ok" /\ c.outputExists
            /\ c.exit = "nooutput" =>
                  /\ ~c.ok
                  /\ c.message = "FFmpeg completed but output file not found"
            /\ c.exit \in {"nonzero", "timeout"} => ~c.ok
            /\ c.command.run <=> c.srcOk
            /\ c.command.run =>
                  /\ c.command.ss = c.start
                  /\ c.command.t = c.dur
                  /\ c.command.output = c.path

\* ffmpeg has exited with 0 without leaving the output file, for a window
\* that does not start at 0.
C18_ZeroExitWithoutOutput ==
    \E i \in CallsOf("generate_segment") :
        /\ calls[i].exit = "nooutput" /\ ~calls[i].ok
        /\ calls[i].start > 0

\* C19: every ffmpeg run of the rendering and export functions is bounded by
\* a timeout, so every call returns: a call that is waiting for its process
\* eventually has its result or its failure.
C19_EveryCallReturns == Pending ~> ~Pending

-----------------------------------------------------------------------------
\* Properties of the trims, continued (Spec).

\* The trims that have passed the load of the record and the scene.
Loaded(r) ==
    /\ req[r].kind = "trim"
    /\ req[r].idx # 0
    /\ req[r].pc \in {"render", "save", "done"}

\* C20: a trim renders from the stored original video, never from a segment,
\* at the window that starts relative_start behind the start_original the
\* scene had in the record when the trim began and lasts relative_duration:
\* the files it has just rendered hold that window.
C20_TrimReadsOriginal ==
    \A r \in ReqIds :
        Loaded(r) =>
            LET scene == req[r].data.scenes[req[r].idx]
                window == [valid |-> TRUE, start |-> scene.start_original + req[r].rs,
                           dur |-> req[r].rd]
            IN  /\ req[r].source = OriginalVideo
                /\ req[r].source = stored.storedVideoPath
                /\ req[r].newStart = scene.start_original + req[r].rs
                /\ req[r].pc = "save" =>
                     /\ req[r].data = stored
                     /\ req[r].regen.proxy_video_path.present =>
                          files[req[r].regen.proxy_video_path] = window
                     /\ req[r].regen.mezzanine_video_path.present =>
                          files[req[r].regen.mezzanine_video_path] = window

\* A scene that an earlier trim moved to start at 0.5 s has been rendered
\* again, in both tiers, by a trim with relative_start 0.5 s.
C20_SecondTrimRendered ==
    \E r \in ReqIds :
        /\ Loaded(r) /\ req[r].pc = "save"
        /\ req[r].rs = 500
        /\ req[r].data.scenes[req[r].idx].start_original = 500
        /\ req[r].regen.proxy_video_path.present
        /\ req[r].regen.mezzanine_video_path.present

-----------------------------------------------------------------------------
\* Properties of the rendering calls, continued (SpecRender).

\* The step is a call of generate_segment that repeats the call before it:
\* the same source, output path and window, and ffmpeg exits with 0 as it
\* did then.
RepeatsCall ==
    /\ Len(calls) >= 1
    /\ Len(calls') = Len(calls) + 1
    /\ LET c == calls[Len(calls)]
           d == calls'[Len(calls')]
       IN  /\ c.fn = "generate_segment" /\ d.fn = "generate_segment"
           /\ c.ok
           /\ d.srcOk = c.srcOk /\ d.path = c.path
           /\ d.start = c.start /\ d.dur = c.dur
           /\ d.exit = "ok"

\* C21: rendering is idempotent: a generate_segment call that repeats a
\* successful call with the same source, window and output path succeeds
\* too (the command overwrites), leaves the disk with the same files, one
\* at the output path, and that file is the one the first call left: a
\* whole file of the window.
C21_RenderIdempotent ==
    [][RepeatsCall =>
          LET d == calls'[Len(calls')]
          IN  /\ d.ok
              /\ d.command.overwrite
              /\ DOMAIN files' = DOMAIN files
              /\ d.path \in DOMAIN files'
              /\ files'[d.path] = files[d.path]
              /\ files'[d.path] =
                    [valid |-> TRUE, start |-> d.start, dur |-> d.dur]
              /\ files' = files]_vars

\* generate_segment has been called twice in a row with the same source,
\* path and window, a window that does not start at 0, and ffmpeg exited
\* with 0 both times.
C21_RenderedTwice ==
    /\ Len(calls) = 2
    /\ calls[1].fn = "generate_segment" /\ calls[2].fn = "generate_segment"
    /\ calls[1].ok /\ calls[2].exit = "ok"
    /\ calls[1].srcOk = calls[2].srcOk /\ calls[1].path = calls[2].path
    /\ calls[1].start = calls[2].start /\ calls[1].dur = calls[2].dur
    /\ calls[1].start > 0
    /\ calls[2].path \in DOMAIN files

-----------------------------------------------------------------------------
\* Properties of the detection runs, continued (SpecDetect).

\* The timestamps detect_scenes_ai pairs up: the starts and ends of the
\* visual scenes and the topic boundaries of the transcript, if there is one.
Breakpoints ==
    LET visual == DetectScenes(video).scenes
    IN  {visual[i].start : i \in 1..Len(visual)}
          \cup {visual[i].end : i \in 1..Len(visual)}
          \cup (IF capability = "ok"
                THEN SeqRange(DetectTopicBoundaries(segs)) ELSE {})

\* a and b are neighbours in the sorted timestamps B.
Adjacent(B, a, b) ==
    /\ a < b
    /\ ~\E c \in B : a < c /\ c < b

\* C22: the scenes of detect_scenes_ai are, in time order, the pairs of
\* neighbouring timestamps of the union of the visual boundaries and the
\* topic boundaries, without exactly the pairs shorter than 2.0 s: a pair of
\* 2.0 s is a scene.
C22_ScenesFromMergedBoundaries ==
    aiOut.run /\ DetectScenes(video).ok /\ DetectScenes(video).scenes # <<>> =>
        LET B == Breakpoints
        IN  /\ {<<aiOut.scenes[i].start, aiOut.scenes[i].end>> :
                    i \in 1..Len(aiOut.scenes)}
                 = {<<Round2(p[1]), Round2(p[2])>> :
                      p \in {q \in B \X B :
                               /\ Adjacent(B, q[1], q[2])
                               /\ q[2] - q[1] >= MinSceneMs}}
            /\ \A i \in 1..(Len(aiOut.scenes) - 1) :
                   aiOut.scenes[i].start < aiOut.scenes[i + 1].start

\* Visual boundaries {0, 4, 9, 12} and the topic boundary 6 have given the
\* four scenes [0,4], [4,6], [6,9], [9,12].
C22_TopicBoundarySplitsScene ==
    /\ aiOut.run
    /\ Breakpoints = {0, 4000, 6000, 9000, 12000}
    /\ Len(DetectScenes(video).scenes) = 3
    /\ Len(aiOut.scenes) = 4
    /\ aiOut.scenes[2].start = 4000 /\ aiOut.scenes[2].end = 6000
    /\ aiOut.scenes[3].transition_type = "topic-change"

\* PySceneDetect has reported no scene for the video, and not failed.
NoBoundaries == cutOut.run /\ ~video.libError /\ video.raw = <<>>

BoundaryMark(i) ==
    \/ EndsSentence(Strip(segs[i].text))
    \/ HasQuestion(Strip(segs[i].text))
    \/ i < Len(segs) /\ segs[i + 1].start - segs[i].end > LongPauseMs

\* C26: the list of detect_topic_boundaries starts with 0.0; every boundary
\* after it is the end of an utterance that ends a sentence, contains a
\* question mark or is followed by a pause of more than 1.0 s, and lies at
\* least 5.0 s behind the boundary accepted before it.
C26_TopicBoundariesSpaced ==
    aiOut.run /\ aiOut.topic_boundaries # <<>> =>
        LET b == aiOut.topic_boundaries
        IN  /\ b[1] = 0
            /\ \A k \in 2..Len(b) :
                  /\ b[k] - b[k - 1] >= MinTopicGapMs
                  /\ \E i \in 1..Len(segs) :
                        segs[i].end = b[k] /\ BoundaryMark(i)

\* An utterance without sentence end and without question mark, followed by
\* a pause of 1.5 s, has given the boundary 6.0 s; the end of the next
\* utterance, exactly 5.0 s later, has been accepted too.
C26_PauseAndExactGap ==
    /\ aiOut.run
    /\ Len(segs) = 2
    /\ segs[1].text = <<"w">> /\ segs[1].end = 6000 /\ segs[2].start = 7500
    /\ aiOut.topic_boundaries = <<0, 6000, 11000>>

\* The samples whose interval overlaps the window of the scene: they share
\* more than an endpoint with it.
Overlapping(sc) ==
    SelectSeq(audio, LAMBDA a : a.start < sc.end /\ a.end > sc.start)

\* C27: for every scene of analyze_video, avg_volume is the mean volume
\* (rounded to three decimals) of exactly the samples that overlap the scene
\* window, 0 when there is none, and high_energy is the OR of their flags; a
\* sample that only touches the window at an endpoint does not count.
C27_AnnotationFromOverlappingSamples ==
    analysis.run /\ analysis.ok =>
        \A k \in 1..Len(analysis.scenes) :
            LET sc == analysis.scenes[k]
                over == Overlapping(sc)
            IN  /\ sc.avg_volume =
                      IF over = <<>> THEN 0
                      ELSE RoundMean(SumVolume(over), Len(over))
                /\ sc.high_energy = 1 <=>
                      \E j \in 1..Len(over) : over[j].high_energy = 1

-----------------------------------------------------------------------------
\* Properties of the stored record, continued (Spec).

\* C24: every scene of the stored record has its trim window at the
\* baseline: current_trimmed_start is 0, current_trimmed_duration is
\* end_original - start_original, start is start_original and end is
\* end_original, after the analysis and after every trim and edit.
C24_TrimWindowAtBaseline ==
    stored.exists =>
        \A i \in 1..Len(stored.scenes) :
            LET sc == stored.scenes[i]
            IN  /\ sc.current_trimmed_start = 0
                /\ sc.current_trimmed_duration = sc.end_original - sc.start_original
                /\ sc.start = sc.start_original
                /\ sc.end = sc.end_original

\* The part of C24 that the code keeps: the scene a trim has saved is at the
\* baseline of its new window, and the other fields never differ.
C24_TrimmedSceneAtBaseline ==
    /\ \A r \in ReqIds :
          req[r].kind = "trim" /\ req[r].status = 200 =>
              LET sc == req[r].saved
              IN  /\ sc.current_trimmed_start = 0
                  /\ sc.current_trimmed_duration = sc.end_original - sc.start_original
                  /\ sc.current_trimmed_duration = req[r].rd
    /\ stored.exists =>
          \A i \in 1..Len(stored.scenes) :
              /\ stored.scenes[i].current_trimmed_start = 0
              /\ stored.scenes[i].start = stored.scenes[i].start_original
              /\ stored.scenes[i].end = stored.scenes[i].end_original

\* The URL under which a scene entry references its file of a tier.
ReferenceOf(sc, tier) ==
    IF tier = "proxy" THEN sc.proxy_video_url ELSE sc.mezzanine_video_url

\* The window recorded in a scene entry, as a rendered file holds it.
RecordedWindow(sc) ==
    [valid |-> TRUE, start |-> sc.start_original,
     dur |-> sc.end_original - sc.start_original]

\* C25: with no handler running, a file that a stored scene references was
\* last rendered from the window recorded in the scene; after a trim that
\* was answered with success, the proxy and the mezzanine file of the scene
\* both hold the new window.
C25_ReferencedFilesHoldWindow ==
    running = 0 /\ stored.exists =>
        \A j \in 1..Len(stored.scenes) : \A t \in Tiers :
            LET sc == stored.scenes[j]
                path == ExistingPath(ReferenceOf(sc, t), t)
            IN  /\ ReferenceOf(sc, t).present =>
                      /\ path \in DOMAIN files
                      /\ files[path] = RecordedWindow(sc)
                /\ acked[j].trimBy # 0 =>
                      /\ CanonicalPath(sc.sceneId, t) \in DOMAIN files
                      /\ files[CanonicalPath(sc.sceneId, t)] = RecordedWindow(sc)

\* The step ends the handler of the title/tag edit r.
EditEnds(r) ==
    /\ req[r].kind = "update"
    /\ req[r].pc # "done"
    /\ req'[r].pc = "done"

\* C28: a title/tag edit that is accepted changes the title and the tags of
\* the scene with the given sceneId and nothing else: the other fields of
\* that scene, every other scene, the rest of the record and the files stay
\* as they are.  An edit that is rejected (no record, unknown scene, blank
\* title) changes neither the record nor the files.
C28_EditChangesTitleAndTagsOnly ==
    [][\A r \in ReqIds :
          EditEnds(r) =>
             IF req'[r].status = 200
             THEN /\ files' = files
                  /\ stored'.exists = stored.exists
                  /\ stored'.storedVideoPath = stored.storedVideoPath
                  /\ Len(stored'.scenes) = Len(stored.scenes)
                  /\ \A j \in 1..Len(stored.scenes) :
                        IF stored.scenes[j].sceneId = req[r].scene
                        THEN stored'.scenes[j] =
                                [stored.scenes[j] EXCEPT
                                    !.title = stored'.scenes[j].title,
                                    !.tags = stored'.scenes[j].tags]
                        ELSE stored'.scenes[j] = stored.scenes[j]
             ELSE /\ req'[r].status \in {400, 404}
                  /\ stored' = stored
                  /\ files' = files]_vars

\* An edit has given a scene with rendered files the title "A" and the tag
\* "x", and an edit with a blank title has been rejected.
C28_EditedAndRejected ==
    \E r \in ReqIds : \E p \in ReqIds :
        /\ req[r].kind = "update" /\ req[r].status = 200
        /\ req[r].saved.title = <<"A">> /\ req[r].saved.tags = { <<"x">> }
        /\ req[r].saved.proxy_video_url.present
        /\ req[r].saved.mezzanine_video_url.present
        /\ stored.scenes[req[r].idx] = req[r].saved
        /\ req[p].kind = "update" /\ req[p].status = 400

\* The step ends the handler of the trim r with its save.
TrimSaves(r) ==
    /\ req[r].kind = "trim"
    /\ req[r].pc = "save"
    /\ req'[r].pc = "done"

\* C29: the sceneIds of a stored record are pairwise distinct, and no trim
\* or edit changes the number of scenes, their order, or the sceneId and
\* scene_index of any of them; a trim changes no entry but that of the
\* trimmed scene.
C29_SceneIdentityStable ==
    [][/\ stored'.exists =>
            \A i \in 1..Len(stored'.scenes) : \A j \in 1..Len(stored'.scenes) :
                i # j => stored'.scenes[i].sceneId # stored'.scenes[j].sceneId
       /\ stored.exists =>
            /\ stored'.exists
            /\ Len(stored'.scenes) = Len(stored.scenes)
            /\ \A j \in 1..Len(stored.scenes) :
                  /\ stored'.scenes[j].sceneId = stored.scenes[j].sceneId
                  /\ stored'.scenes[j].scene_index = stored.scenes[j].scene_index
                  /\ \A r \in ReqIds :
                        TrimSaves(r) /\ stored.scenes[j].sceneId # req[r].scene =>
                            stored'.scenes[j] = stored.scenes[j]]_vars

\* In a record of two scenes the first scene has been trimmed and the
\* second has been edited.
C29_FirstTrimmedSecondEdited ==
    /\ stored.exists /\ Len(stored.scenes) = 2
    /\ \E r \in ReqIds : \E p \in ReqIds :
          /\ req[r].kind = "trim" /\ req[r].status = 200 /\ req[r].scene = 1
          /\ req[r].rs > 0
          /\ req[p].kind = "update" /\ req[p].status = 200 /\ req[p].scene = 2
          /\ stored.scenes[1].sceneId = 1 /\ stored.scenes[2].sceneId = 2
          /\ stored.scenes[1].start_original = req[r].saved.start_original

\* The entry of the scene as the trim r loaded it.
BeforeTrim(r) == req[r].data.scenes[req[r].idx]

\* C30: a trim only shrinks a scene: the window a successful trim saves
\* lies within the window the scene had before it, so its start is not
\* earlier and its end is not later.
C30_TrimOnlyShrinks ==
    \A r \in ReqIds :
        req[r].kind = "trim" /\ req[r].status = 200 =>
            /\ req[r].saved.start_original >= BeforeTrim(r).start_original
            /\ req[r].saved.end_original <= BeforeTrim(r).end_original

\* The part of C30 that the code keeps: the start of the window never moves
\* to an earlier time, and the saved window is not empty.
C30_TrimStartNotEarlier ==
    \A r \in ReqIds :
        req[r].kind = "trim" /\ req[r].status = 200 =>
            /\ req[r].saved.start_original >= BeforeTrim(r).start_original
            /\ req[r].saved.start_original >= 0
            /\ req[r].saved.end_original > req[r].saved.start_original

====
